---------------------------- MODULE Spec2Model ----------------------------
(***************************************************************************)
(* Omada -> Discord webhook bridge: the translator (src/src/translator.js) *)
(* and the Discord sender (src/src/discord-sender.js, both variants held   *)
(* by that file: the discord.js WebhookClient one and the axios one).      *)
(*                                                                         *)
(* Text the translator scans is a sequence of one-character strings, so    *)
(* that regular-expression search, joining and case folding are computed.  *)
(* Text the sender only measures (validatePayload reads truthiness and     *)
(* .length, nothing else) is held by its length; length 0 stands for an    *)
(* absent or empty string, which the code does not tell apart either.      *)
(***************************************************************************)
EXTENDS Integers, Sequences, FiniteSets, TLC

VARIABLES
    now,          \* the clock: Date.now() / new Date()
    event,        \* translator: the argument of the current translate call
    out,          \* translator: what that call returned or threw
    prev,         \* translator: body and rule of the call before it
    lastIndex,    \* translator: the lastIndex of the regexes of the table
    candidate,    \* validatePayload: the payload handed to it
    verdict,      \* validatePayload: true, or the error it threw
    impl,         \* sender: which DiscordSender the process runs
    lastSentTime, \* sender: this.lastSentTime
    call,         \* sender: the send calls in flight, one slot per caller
    dispatches,   \* history: the clock at the start of the last network calls
    lastDone,     \* history: when the latest finished send ended, and how
    shardSecret,  \* server: config.get('security.shardSecret')
    req,          \* server: the webhook requests, their inputs and answers
    vcall         \* validator: a call of one of its functions, on its own

translatorVars == <<event, out, prev, lastIndex>>
validatorVars == <<candidate, verdict>>
senderVars == <<impl, lastSentTime, call, dispatches, lastDone>>
serverVars == <<shardSecret, req, vcall>>
vars == <<now, event, out, prev, lastIndex, candidate, verdict, impl,
          lastSentTime, call, dispatches, lastDone, shardSecret, req, vcall>>

---------------------------------------------------------------------------
(* JavaScript values, as far as the translator looks at them.              *)

Undefined == [t |-> "undefined", s |-> <<>>, a |-> <<>>, n |-> 0]
Null == [t |-> "null", s |-> <<>>, a |-> <<>>, n |-> 0]
Str(chars) == [t |-> "string", s |-> chars, a |-> <<>>, n |-> 0]
Arr(items) == [t |-> "array", s |-> <<>>, a |-> items, n |-> 0]
Num(k) == [t |-> "number", s |-> <<>>, a |-> <<>>, n |-> k]
Bool(b) ==
    [t |-> "boolean", s |-> <<>>, a |-> <<>>, n |-> IF b THEN 1 ELSE 0]

\* ToBoolean: undefined, null, "", 0 and false are falsy; arrays are truthy.
Truthy(v) ==
    CASE v.t = "undefined" -> FALSE
      [] v.t = "null" -> FALSE
      [] v.t = "string" -> v.s # <<>>
      [] v.t = "number" -> v.n # 0
      [] v.t = "boolean" -> v.n # 0
      [] OTHER -> TRUE

UpperCase == <<"A", "B", "C", "D", "E", "F", "G", "H", "I", "J", "K", "L",
               "M", "N", "O", "P", "Q", "R", "S", "T", "U", "V", "W", "X",
               "Y", "Z">>
LowerCase == <<"a", "b", "c", "d", "e", "f", "g", "h", "i", "j", "k", "l",
               "m", "n", "o", "p", "q", "r", "s", "t", "u", "v", "w", "x",
               "y", "z">>

ToLower(c) ==
    IF \E i \in 1..Len(UpperCase) : UpperCase[i] = c
    THEN LowerCase[CHOOSE i \in 1..Len(UpperCase) : UpperCase[i] = c]
    ELSE c

ToLowerCase(chars) == [i \in 1..Len(chars) |-> ToLower(chars[i])]

\* Array.prototype.join over an array of strings.
RECURSIVE Join(_, _)
Join(items, sep) ==
    IF items = <<>> THEN <<>>
    ELSE IF Len(items) = 1 THEN items[1]
    ELSE items[1] \o sep \o Join(Tail(items), sep)

\* ToString, which RegExp.prototype.test applies to its argument.
ToStringJS(v) ==
    CASE v.t = "undefined" -> <<"u", "n", "d", "e", "f", "i", "n", "e", "d">>
      [] v.t = "null" -> <<"n", "u", "l", "l">>
      [] v.t = "string" -> v.s
      [] v.t = "array" -> Join(v.a, <<",">>)
      [] OTHER -> <<"N", "a", "N">>

\* pattern occurs in chars at some offset
Occurs(pattern, chars) ==
    \E off \in 0..(Len(chars) - Len(pattern)) :
        \A i \in 1..Len(pattern) : chars[off + i] = pattern[i]

\* regex.test(v) for a case-insensitive regex that is an alternation of
\* literals (every regex of EVENT_TYPES_MAP is one, none has the g flag).
RegexTest(regex, v) ==
    LET subject == ToLowerCase(ToStringJS(v))
    IN \E k \in 1..Len(regex) : Occurs(regex[k], subject)

\* (a table whose regexes are global as well)
RegexFlagsGlobal == {"g", "i"}

\* the flags of the regexes of EVENT_TYPES_MAP: /.../i, each of them
RegexFlags == {"i"}

\* regex.test(v) of a regex object whose lastIndex is from: whether it
\* matched, and the lastIndex it leaves. A regex that is neither global nor
\* sticky searches from the start and leaves lastIndex alone; a global one
\* searches from lastIndex and sets it to the end of the match, to 0 when
\* there is none.
RegexTestFrom(regex, v, from) ==
    IF "g" \notin RegexFlags
    THEN [found |-> RegexTest(regex, v), lastIndex |-> from]
    ELSE LET subject == ToLowerCase(ToStringJS(v))
             Stands(k, off) ==
                 /\ off + Len(regex[k]) <= Len(subject)
                 /\ \A i \in 1..Len(regex[k]) : subject[off + i] = regex[k][i]
             starts == { off \in from..Len(subject) :
                           \E k \in 1..Len(regex) : Stands(k, off) }
         IN IF starts = {} THEN [found |-> FALSE, lastIndex |-> 0]
            ELSE LET off == CHOOSE o \in starts : \A q \in starts : o <= q
                     first == CHOOSE k \in 1..Len(regex) :
                                  /\ Stands(k, off)
                                  /\ \A h \in 1..(k - 1) : ~Stands(h, off)
                 IN [found |-> TRUE, lastIndex |-> off + Len(regex[first])]

---------------------------------------------------------------------------
(* translator.js: the tables                                               *)

EVENT_TYPES ==
    {"CRITICAL", "ERROR", "WARNING", "INFO", "SUCCESS", "ATTACK", "INTRUSION",
     "DEVICE_OFFLINE", "DEVICE_ONLINE", "CLIENT_CONNECTED",
     "CLIENT_DISCONNECTED", "FIRMWARE_UPDATE", "CONFIG_CHANGE", "DEFAULT",
     "DHCP", "LOGS", "LOGGED_IN_OUT", "TEST", "BANDWIDTH_LIMIT",
     "AUTHENTICATION_FAILURE"}

\* colours as the 24-bit numbers of the source
ALERT_COLORS_MAPPING ==
    [CRITICAL |-> 16711680, ERROR |-> 16729344, WARNING |-> 16753920,
     INFO |-> 49151, SUCCESS |-> 65280, ATTACK |-> 9109504,
     INTRUSION |-> 9109504, DEVICE_OFFLINE |-> 16729344,
     DEVICE_ONLINE |-> 65280, CLIENT_CONNECTED |-> 65280,
     CLIENT_DISCONNECTED |-> 16753920, FIRMWARE_UPDATE |-> 49151,
     CONFIG_CHANGE |-> 49151, DEFAULT |-> 7506394, DHCP |-> 7506394,
     LOGS |-> 7506394, LOGGED_IN_OUT |-> 7506394,
     BANDWIDTH_LIMIT |-> 7506394, AUTHENTICATION_FAILURE |-> 7506394,
     TEST |-> 7506394]

\* titles, without the emoji that leads each of them in the source
EVENT_TITLES ==
    [ATTACK |-> "Attack Detected", INTRUSION |-> "Intrusion Detected",
     DEVICE_OFFLINE |-> "Device Offline", DEVICE_ONLINE |-> "Device Online",
     CLIENT_CONNECTED |-> "Client Connected",
     CLIENT_DISCONNECTED |-> "Client Disconnected",
     FIRMWARE_UPDATE |-> "Firmware Update",
     CONFIG_CHANGE |-> "Configuration Change", DHCP |-> "DHCP",
     LOGS |-> "Logs", BANDWIDTH_LIMIT |-> "Bandwidth Limit Exceeded",
     AUTHENTICATION_FAILURE |-> "Authentication Failure",
     LOGGED_IN_OUT |-> "Logged In/Out", TEST |-> "Test",
     DEFAULT |-> "Omada Alert"]

\* the ordered rule table; a regex is the sequence of its literal alternatives
EVENT_TYPES_MAP ==
    << [regex |-> << <<"a", "t", "t", "a", "c", "k">> >>, type |-> "ATTACK"],
       [regex |-> << <<"f", "l", "o", "o", "d">> >>, type |-> "ATTACK"],
       [regex |-> << <<"i", "n", "t", "r", "u", "s", "i", "o", "n">> >>,
                       type |-> "INTRUSION"],
       [regex |-> << <<"e", "r", "r", "o", "r">>,
                     <<"f", "a", "i", "l", "e", "d">> >>, type |-> "ERROR"],
       [regex |-> << <<"d", "h", "c", "p">> >>, type |-> "DHCP"],
       [regex |-> << <<"l", "o", "g", "s">> >>, type |-> "LOGS"],
       [regex |-> << <<"l", "o", "g", "g", "e", "d", " ", "o", "u", "t">>,
                     <<"l", "o", "g", "g", "e", "d", " ", "i", "n">> >>,
        type |-> "LOGGED_IN_OUT"],
       [regex |-> << <<"s", "u", "c", "c", "e", "s", "s">> >>,
                       type |-> "SUCCESS"],
       [regex |-> << <<"t", "e", "s", "t">> >>, type |-> "TEST"],
       [regex |-> << <<"d", "e", "v", "i", "c", "e", " ", "o", "f", "f", "l",
                       "i", "n", "e">> >>,
        type |-> "DEVICE_OFFLINE"],
       [regex |-> << <<"d", "e", "v", "i", "c", "e", " ", "o", "n", "l", "i",
                       "n", "e">> >>,
        type |-> "DEVICE_ONLINE"],
       [regex |-> << <<"c", "l", "i", "e", "n", "t", " ", "c", "o", "n", "n",
                       "e", "c", "t", "e", "d">> >>,
        type |-> "CLIENT_CONNECTED"],
       [regex |-> << <<"c", "l", "i", "e", "n", "t", " ", "d", "i", "s", "c",
                       "o", "n", "n", "e", "c", "t", "e", "d">> >>,
        type |-> "CLIENT_DISCONNECTED"],
       [regex |-> << <<"f", "i", "r", "m", "w", "a", "r", "e", " ", "u", "p",
                       "d", "a", "t", "e">> >>,
        type |-> "FIRMWARE_UPDATE"],
       [regex |-> << <<"c", "o", "n", "f", "i", "g", "u", "r", "a", "t", "i",
                       "o", "n", " ", "c", "h", "a", "n", "g", "e">> >>,
        type |-> "CONFIG_CHANGE"],
       [regex |-> << <<"b", "a", "n", "d", "w", "i", "d", "t", "h", " ", "l",
                       "i", "m", "i", "t", " ", "e", "x", "c", "e", "e", "d",
                       "e", "d">> >>,
        type |-> "BANDWIDTH_LIMIT"],
       [regex |-> << <<"a", "u", "t", "h", "e", "n", "t", "i", "c", "a", "t",
                       "i", "o", "n", " ", "f", "a", "i", "l", "u", "r",
                       "e">> >>,
        type |-> "AUTHENTICATION_FAILURE"] >>

---------------------------------------------------------------------------
(* translator.js: OmadaToDiscordTranslator                                 *)

\* What EVENT_TYPES_MAP.find returns: undefined, or the matching entry (an
\* object {regex, type}) named by its index. A bare type name, which is what
\* the unit tests hand to shouldMention, is the third kind of value.
NoEntry == [t |-> "undefined", rule |-> 0, name |-> ""]
Entry(i) == [t |-> "object", rule |-> i, name |-> ""]
TypeName(s) == [t |-> "string", rule |-> 0, name |-> s]

\* The lastIndex of the regexes of the table: the pairs << rule, lastIndex >>
\* of those where it is not 0. The module's load leaves every one at 0.
NeverTested == {}
IndexOf(indexes, i) ==
    IF \E p \in indexes : p[1] = i
    THEN (CHOOSE p \in indexes : p[1] = i)[2]
    ELSE 0
WithIndex(indexes, i, index) ==
    IF index = IndexOf(indexes, i) THEN indexes
    ELSE { p \in indexes : p[1] # i }
             \cup (IF index = 0 THEN {} ELSE {<< i, index >>})

\* EVENT_TYPES_MAP.find(({ regex }) => regex.test(text)): entries in order,
\* the first whose regex matches, undefined when none does; indexes holds
\* the lastIndex of each regex, and the call leaves what it tested.
RECURSIVE FindFrom(_, _, _)
FindFrom(i, text, indexes) ==
    IF i > Len(EVENT_TYPES_MAP)
    THEN [type |-> NoEntry, lastIndex |-> indexes]
    ELSE LET tested == RegexTestFrom(EVENT_TYPES_MAP[i].regex, text,
                                     IndexOf(indexes, i))
             after == WithIndex(indexes, i, tested.lastIndex)
         IN IF tested.found THEN [type |-> Entry(i), lastIndex |-> after]
            ELSE FindFrom(i + 1, text, after)

Find(text, indexes) == FindFrom(1, text, indexes)

\* ToPropertyKey of the value used as a table index: an object becomes
\* "[object Object]", undefined becomes "undefined".
PropertyKey(type) ==
    CASE type.t = "undefined" -> "undefined"
      [] type.t = "object" -> "[object Object]"
      [] OTHER -> type.name

getEmbedColor(type) ==
    IF PropertyKey(type) \in DOMAIN ALERT_COLORS_MAPPING
    THEN ALERT_COLORS_MAPPING[PropertyKey(type)]
    ELSE ALERT_COLORS_MAPPING.DEFAULT

\* EVENT_TITLES[type] || EVENT_TITLES.DEFAULT
TitleOf(type) ==
    IF PropertyKey(type) \in DOMAIN EVENT_TITLES
    THEN EVENT_TITLES[PropertyKey(type)]
    ELSE EVENT_TITLES.DEFAULT

\* criticalTypes.includes(type): equality with one of two strings
shouldMention(type) ==
    type.t = "string" /\ type.name \in {"ATTACK", "INTRUSION"}

Field(name, value, inline) ==
    [name |-> name, value |-> value, inline |-> inline]

\* (fields built from the keys site and controllerId)
buildFieldsLowerCaseKeys(payload) ==
    (IF Truthy(payload.site)
     THEN << Field("Site", payload.site, TRUE) >> ELSE <<>>)
    \o (IF Truthy(payload.controllerId)
        THEN << Field("Controller", payload.controllerId, TRUE) >>
        ELSE <<>>)
    \o (IF Truthy(payload.text) /\ payload.text.t = "array"
           /\ Len(payload.text.a) > 0
        THEN << Field("Details", Str(Join(payload.text.a, << "\n" >>)),
            FALSE) >>
        ELSE <<>>)

buildFields(payload) ==
    (IF Truthy(payload.Site)
     THEN << Field("Site", payload.Site, TRUE) >> ELSE <<>>)
    \o (IF Truthy(payload.Controller)
        THEN << Field("Controller", payload.Controller, TRUE) >> ELSE <<>>)
    \o (IF Truthy(payload.text) /\ payload.text.t = "array"
           /\ Len(payload.text.a) > 0
        THEN << Field("Details", Str(Join(payload.text.a, << "\n" >>)),
            FALSE) >>
        ELSE <<>>)

\* (the detail lines preferred to the description)
ResolveMessageTextFirst(description, text) ==
    LET joined == IF text.t = "array" THEN Str(Join(text.a, <<" ">>)) ELSE text
    IN IF Truthy(joined) THEN joined
       ELSE IF Truthy(description) THEN description
       ELSE Str(<<"N", "o", " ", "m", "e", "s", "s", "a", "g", "e", " ", "p",
                  "r", "o", "v", "i", "d", "e", "d">>)

\* description || (Array.isArray(text) ? text.join(' ') : text)
\*             || 'No message provided'
ResolveMessage(description, text) ==
    LET joined == IF text.t = "array" THEN Str(Join(text.a, <<" ">>)) ELSE text
    IN IF Truthy(description) THEN description
       ELSE IF Truthy(joined) THEN joined
       ELSE Str(<<"N", "o", " ", "m", "e", "s", "s", "a", "g", "e", " ", "p",
                  "r", "o", "v", "i", "d", "e", "d">>)

\* new Date(v): a number is that instant; the strings this model feeds it are
\* not dates, and Date.parse gives NaN for them.
NewDate(v) ==
    IF v.t \in {"number", "date"} THEN [valid |-> TRUE, ms |-> v.n]
    ELSE [valid |-> FALSE, ms |-> 0]

\* the ISO-8601 text of an instant, held as the instant it denotes
Iso(ms) == [iso |-> ms]

NoMessage ==
    [username |-> "", avatar_url |-> "", embeds |-> <<>>,
        content |-> Undefined]

Thrown(what) == [threw |-> what, type |-> NoEntry, payload |-> NoMessage]

\* translate(omadaPayload) at clock value clock, the regexes of the table
\* standing at indexes: under out the Discord payload, with the local
\* variable type beside it, or the error thrown; under lastIndex where the
\* call leaves the regexes (find runs when nothing was thrown on the lines
\* before it).
translateFrom(omadaPayload, clock, indexes) ==
    \* !omadaPayload || typeof omadaPayload !== 'object' (an array is one)
    IF ~Truthy(omadaPayload) \/ omadaPayload.t \notin {"object", "array"}
    THEN [out |-> Thrown("Invalid Omada payload"), lastIndex |-> indexes]
    ELSE
    LET description == omadaPayload.description
        text == omadaPayload.text
        omadaTimestamp == omadaPayload.timestamp
        message == ResolveMessage(description, text)
    IN IF Truthy(omadaTimestamp) /\ ~NewDate(omadaTimestamp).valid
       THEN [out |-> Thrown("RangeError: Invalid time value"),
             lastIndex |-> indexes]
       ELSE \* one call of find; the rest of translate reads its result
            LET InMessage(type) ==
                    [threw |-> "",
                     type |-> type,
                     payload |->
                         [username |-> "Omada Controller",
                          avatar_url |->
                              "https://static.tp-link.com/favicon.ico",
                          embeds |->
                              << [title |-> TitleOf(type),
                                  description |-> message,
                                  color |-> getEmbedColor(type),
                                  timestamp |->
                                      IF Truthy(omadaTimestamp)
                                      THEN Iso(NewDate(omadaTimestamp).ms)
                                      ELSE Iso(clock),
                                  fields |-> buildFields(omadaPayload)] >>,
                          content |-> IF shouldMention(type)
                                      THEN Str(<<"@", "h", "e", "r", "e">>)
                                      ELSE Undefined]]
                Found(found) ==
                    [out |-> InMessage(found.type),
                     lastIndex |-> found.lastIndex]
            IN Found(Find(text, indexes))

\* translate as the process runs it: the regexes stand where the calls
\* before this one left them
translate(omadaPayload, clock) ==
    translateFrom(omadaPayload, clock, lastIndex).out

---------------------------------------------------------------------------
(* The events the model feeds to translate                                 *)

\* An object-shaped event; a key the object lacks reads as undefined.
Payload(description, text, timestamp, Site, Controller, site, controllerId) ==
    [t |-> "object", s |-> <<>>, a |-> <<>>, n |-> 0,
     description |-> description, text |-> text, timestamp |-> timestamp,
     Site |-> Site, Controller |-> Controller,
     site |-> site, controllerId |-> controllerId]

\* A value that is no plain object: every key reads as undefined.
NonObject(v) ==
    [t |-> v.t, s |-> v.s, a |-> v.a, n |-> v.n,
     description |-> Undefined, text |-> Undefined, timestamp |-> Undefined,
     Site |-> Undefined, Controller |-> Undefined,
     site |-> Undefined, controllerId |-> Undefined]

Descriptions ==
    { Undefined, Str(<<>>),
      Str(<<"D", "D", "o", "S", " ", "a", "t", "t", "a", "c", "k", " ", "d",
            "e", "t", "e", "c", "t", "e", "d">>),
      Str(<<"a", "t", "t", "a", "c", "k">>),
      Str(<<"D", "e", "v", "i", "c", "e", " ", "O", "f", "f", "l", "i", "n",
            "e", " ", "A", "P", "-", "1", " ", "d", "i", "s", "c", "o", "n",
            "n", "e", "c", "t", "e", "d">>) }

\* one text per rule of the table, and the shapes the joins tell apart
TextLines ==
    { << <<"a", "t", "t", "a", "c", "k">> >>,
      << <<"S", "Y", "N", " ", "f", "l", "o", "o", "d">> >>,
      << <<"I", "n", "t", "r", "u", "s", "i", "o", "n">> >>,
      << <<"L", "o", "g", "i", "n", " ", "f", "a", "i", "l", "e", "d">> >>,
      << <<"D", "H", "C", "P", " ", "l", "e", "a", "s", "e">> >>,
      << <<"l", "o", "g", "s">> >>,
      << <<"a", "d", "m", "i", "n", " ", "l", "o", "g", "g", "e", "d", " ",
           "i", "n">> >>,
      << <<"S", "u", "c", "c", "e", "s", "s">> >>,
      << <<"d", "e", "v", "i", "c", "e", " ", "o", "n", "l", "i", "n",
           "e">> >>,
      << <<"c", "l", "i", "e", "n", "t", " ", "d", "i", "s", "c", "o", "n",
           "n", "e", "c", "t", "e", "d">> >>,
      << <<"F", "i", "r", "m", "w", "a", "r", "e", " ", "U", "p", "d", "a",
           "t", "e">> >>,
      << <<"c", "o", "n", "f", "i", "g", "u", "r", "a", "t", "i", "o", "n",
           " ", "c", "h", "a", "n", "g", "e">> >>,
      << <<"B", "a", "n", "d", "w", "i", "d", "t", "h", " ", "l", "i", "m",
           "i", "t", " ", "e", "x", "c", "e", "e", "d", "e", "d">> >>,
      << <<"a", "u", "t", "h", "e", "n", "t", "i", "c", "a", "t", "i", "o",
           "n", " ", "f", "a", "i", "l", "u", "r", "e">> >>,
      << <<"D", "e", "v", "i", "c", "e", " ", "O", "f", "f", "l", "i", "n",
           "e">>, <<"A", "P", "-", "1", " ", "d", "i", "s", "c", "o", "n",
           "n", "e", "c", "t", "e", "d">> >>,
      << <<"c", "l", "i", "e", "n", "t", " ", "c", "o", "n", "n", "e", "c",
           "t", "e", "d">>, <<"T", "e", "s", "t">> >>,
      << <<"d", "e", "v", "i", "c", "e">>, <<"o", "f", "f", "l", "i", "n",
           "e">> >>,
      << <<"l", "i", "n", "k", " ", "u", "p">> >>,
      << <<>> >>,
      << <<>>, <<>> >>,
      <<>> }

Texts == { Undefined, Str(<<"f", "l", "o", "o",
                            "d">>) } \cup { Arr(l) : l \in TextLines }

Sites == { Undefined, Str(<<>>), Str(<<"H", "Q">>) }
Controllers == { Undefined, Str(<<"C", "1">>) }
Timestamps == { Undefined, Num(0), Num(5), Str(<<"s", "o", "o", "n">>) }

\* events that differ in the text they carry
MessageEvents ==
    { Payload(d, x, Undefined, Undefined, Undefined, Undefined, Undefined) :
        d \in Descriptions, x \in Texts }

\* events that differ in the labels and the timestamp beside the text
LabelEvents ==
    { Payload(dx[1], dx[2], ts, S, C, lc[1], lc[2]) :
        dx \in { << Str(<<"D", "D", "o", "S", " ", "a", "t", "t", "a", "c",
                          "k", " ", "d", "e", "t", "e", "c", "t", "e",
                          "d">>), Undefined >>,
                 << Undefined, Arr(<< <<"D", "e", "v", "i", "c", "e", " ",
                                        "O", "f", "f", "l", "i", "n", "e">>,
                                      <<"A", "P", "-", "1", " ", "d", "i",
                                        "s", "c", "o", "n", "n", "e", "c",
                                        "t", "e", "d">> >>) >>,
                 << Undefined, Undefined >> },
        ts \in Timestamps, S \in Sites, C \in Controllers,
        lc \in { << Undefined, Undefined >>, << Str(<<"H", "Q">>), Str(<<"C",
                                                      "1">>) >> } }

NonObjects ==
    { NonObject(v) :
        v \in { Null, Undefined, Str(<<"s", "t", "r", "i", "n", "g">>),
                                       Str(<<>>), Num(123), Num(0),
                Bool(TRUE), Bool(FALSE), Arr(<<>>), Arr(<< <<"a", "t", "t",
                                                             "a", "c",
                                                             "k">> >>) } }

Events == MessageEvents \cup LabelEvents \cup NonObjects

---------------------------------------------------------------------------
(* discord-sender.js: validatePayload, validateEmbed, calculateEmbedLength *)
(*                                                                         *)
(* A payload as validatePayload reads it. A string is its length (0: absent *)
(* or empty); footer and author are the lengths of footer.text and          *)
(* author.name; kind, embedsKind and fieldsKind say what typeof and         *)
(* Array.isArray see.                                                       *)

EmbedOf(title, description, footer, author, fields) ==
    [kind |-> "object", title |-> title, description |-> description,
     footer |-> footer, author |-> author,
     fieldsKind |-> "array", fields |-> fields]

MessageOf(content, username, embeds) ==
    [kind |-> "object", content |-> content, username |-> username,
     embedsKind |-> "array", embeds |-> embeds]

Accepted == [ok |-> TRUE, error |-> "", embed |-> -1, field |-> -1]
Rejected(error) == [ok |-> FALSE, error |-> error, embed |-> -1, field |-> -1]
EmbedError(index, error) ==
    [ok |-> FALSE, error |-> error, embed |-> index, field |-> -1]
FieldError(index, fieldIndex, error) ==
    [ok |-> FALSE, error |-> error, embed |-> index, field |-> fieldIndex]

RECURSIVE SumFieldLengths(_)
SumFieldLengths(fields) ==
    IF fields = <<>> THEN 0
    ELSE fields[1].name + fields[1].value + SumFieldLengths(Tail(fields))

\* (a total that leaves the fields out)
calculateEmbedLengthNoFields(embed) ==
    embed.title + embed.description + embed.footer + embed.author

calculateEmbedLength(embed) ==
    embed.title + embed.description + embed.footer + embed.author
    + (IF embed.fieldsKind # "absent" THEN SumFieldLengths(embed.fields)
       ELSE 0)

\* embed.fields.forEach: the first field, in order, that fails a check
RECURSIVE validateFieldsFrom(_, _, _)
validateFieldsFrom(fields, index, fieldIndex) ==
    IF fieldIndex >= Len(fields) THEN Accepted
    ELSE LET field == fields[fieldIndex + 1]
         IN IF field.name = 0 \/ field.name > 256
            THEN FieldError(index, fieldIndex,
                "name must be 1-256 characters")
            ELSE IF field.value = 0 \/ field.value > 1024
            THEN FieldError(index, fieldIndex,
                            "value must be 1-1024 characters")
            ELSE validateFieldsFrom(fields, index, fieldIndex + 1)

\* (the checks of an embed with those of its fields put first)
validateEmbedFieldsFirst(embed, index) ==
    IF embed.kind # "object" THEN EmbedError(index, "must be an object")
    ELSE IF embed.fieldsKind = "other"
    THEN EmbedError(index, "fields must be an array")
    ELSE IF embed.fieldsKind = "array" /\ Len(embed.fields) > 25
    THEN EmbedError(index, "can have maximum 25 fields")
    ELSE IF embed.fieldsKind = "array"
            /\ ~validateFieldsFrom(embed.fields, index, 0).ok
    THEN validateFieldsFrom(embed.fields, index, 0)
    ELSE IF embed.title > 256
    THEN EmbedError(index, "title must be 256 characters or less")
    ELSE IF embed.description > 4096
    THEN EmbedError(index, "description must be 4096 characters or less")
    ELSE IF embed.footer > 2048
    THEN EmbedError(index, "footer text must be 2048 characters or less")
    ELSE IF embed.author > 256
    THEN EmbedError(index, "author name must be 256 characters or less")
    ELSE IF calculateEmbedLength(embed) > 6000
    THEN EmbedError(index, "total length must be 6000 characters or less")
    ELSE Accepted

validateEmbed(embed, index) ==
    IF embed.kind # "object" THEN EmbedError(index, "must be an object")
    ELSE IF embed.title > 256
    THEN EmbedError(index, "title must be 256 characters or less")
    ELSE IF embed.description > 4096
    THEN EmbedError(index, "description must be 4096 characters or less")
    ELSE IF embed.fieldsKind = "other"
    THEN EmbedError(index, "fields must be an array")
    ELSE IF embed.fieldsKind = "array" /\ Len(embed.fields) > 25
    THEN EmbedError(index, "can have maximum 25 fields")
    ELSE IF embed.fieldsKind = "array"
            /\ ~validateFieldsFrom(embed.fields, index, 0).ok
    THEN validateFieldsFrom(embed.fields, index, 0)
    ELSE IF embed.footer > 2048
    THEN EmbedError(index, "footer text must be 2048 characters or less")
    ELSE IF embed.author > 256
    THEN EmbedError(index, "author name must be 256 characters or less")
    ELSE IF calculateEmbedLength(embed) > 6000
    THEN EmbedError(index, "total length must be 6000 characters or less")
    ELSE Accepted

\* payload.embeds.forEach: the first embed, in order, that fails
RECURSIVE validateEmbedsFrom(_, _)
validateEmbedsFrom(embeds, index) ==
    IF index >= Len(embeds) THEN Accepted
    ELSE IF ~validateEmbed(embeds[index + 1], index).ok
    THEN validateEmbed(embeds[index + 1], index)
    ELSE validateEmbedsFrom(embeds, index + 1)

\* (the content limit taken as exclusive)
validatePayloadOffByOne(payload) ==
    IF payload.kind # "object" THEN Rejected("Payload must be an object")
    ELSE IF payload.content = 0
            /\ (payload.embedsKind = "absent"
                \/ (payload.embedsKind = "array" /\ Len(payload.embeds) = 0))
    THEN Rejected("Payload must have either content or embeds")
    ELSE IF payload.content >= 2000
    THEN Rejected("Content must be 2000 characters or less")
    ELSE IF payload.embedsKind = "other"
    THEN Rejected("Embeds must be an array")
    ELSE IF payload.embedsKind = "array" /\ Len(payload.embeds) > 10
    THEN Rejected("Maximum 10 embeds allowed")
    ELSE IF payload.embedsKind = "array"
            /\ ~validateEmbedsFrom(payload.embeds, 0).ok
    THEN validateEmbedsFrom(payload.embeds, 0)
    ELSE IF payload.username > 80
    THEN Rejected("Username must be 80 characters or less")
    ELSE Accepted

validatePayload(payload) ==
    IF payload.kind # "object" THEN Rejected("Payload must be an object")
    ELSE IF payload.content = 0
            /\ (payload.embedsKind = "absent"
                \/ (payload.embedsKind = "array" /\ Len(payload.embeds) = 0))
    THEN Rejected("Payload must have either content or embeds")
    ELSE IF payload.content > 2000
    THEN Rejected("Content must be 2000 characters or less")
    ELSE IF payload.embedsKind = "other"
    THEN Rejected("Embeds must be an array")
    ELSE IF payload.embedsKind = "array" /\ Len(payload.embeds) > 10
    THEN Rejected("Maximum 10 embeds allowed")
    ELSE IF payload.embedsKind = "array"
            /\ ~validateEmbedsFrom(payload.embeds, 0).ok
    THEN validateEmbedsFrom(payload.embeds, 0)
    ELSE IF payload.username > 80
    THEN Rejected("Username must be 80 characters or less")
    ELSE Accepted

---------------------------------------------------------------------------
(* The payloads the model hands to validatePayload: every limit at the      *)
(* limit and one past it.                                                   *)

Repeat(x, count) == [i \in 1..count |-> x]
FieldOf(name, value) == [name |-> name, value |-> value]

PlainEmbed == EmbedOf(1, 1, 0, 0, <<>>)

CandidateFields ==
    { <<>>, Repeat(FieldOf(1, 1), 26) }
    \cup { Repeat(f, k) :
             f \in { FieldOf(1, 1), FieldOf(0, 1), FieldOf(1, 0),
                     FieldOf(256, 1024), FieldOf(257, 1), FieldOf(1, 1025) },
             k \in {1, 25} }
    \cup { << FieldOf(1, 1), FieldOf(257, 1025) >> }

CandidateEmbeds ==
    { EmbedOf(title, description, footer, author, fields) :
        title \in {0, 1, 256, 257},
        description \in {0, 1, 4096, 4097},
        footer \in {0, 1903, 1904, 1905, 2048, 2049},
        author \in {0, 256, 257},
        fields \in CandidateFields }

IllShaped ==
    { [MessageOf(0, 0, <<>>) EXCEPT !.kind = "null"],
      [MessageOf(1, 0, <<>>) EXCEPT !.kind = "string"],
      [MessageOf(1, 0, <<>>) EXCEPT !.embedsKind = "other"],
      [MessageOf(0, 0, <<>>) EXCEPT !.embedsKind = "other"],
      [MessageOf(1, 0, <<>>) EXCEPT !.embedsKind = "absent"],
      [MessageOf(0, 0, <<>>) EXCEPT !.embedsKind = "absent"],
      MessageOf(0, 0, << [PlainEmbed EXCEPT !.kind = "null"] >>),
      MessageOf(0, 0, << [PlainEmbed EXCEPT !.fieldsKind = "other"] >>),
      MessageOf(0, 0, << [PlainEmbed EXCEPT !.fieldsKind = "absent"] >>) }

Candidates ==
    { MessageOf(content, username, embeds) :
        content \in {0, 1, 2000, 2001},
        username \in {0, 80, 81},
        embeds \in { <<>>, Repeat(PlainEmbed, 10), Repeat(PlainEmbed, 11) }
                   \cup { << e >> : e \in CandidateEmbeds }
                   \cup { << PlainEmbed, e >> :
                            e \in { EmbedOf(257, 1, 0, 0, <<>>),
                                    EmbedOf(1, 4096, 1904, 0, <<>>) } } }
    \cup IllShaped

---------------------------------------------------------------------------
(* validator.js: the shard secret, sanitizing, the schema of the webhook   *)

Digits == <<"0", "1", "2", "3", "4", "5", "6", "7", "8", "9">>
CharsOf(chars) == { chars[i] : i \in 1..Len(chars) }

\* \w of a regular expression
WordChars == CharsOf(UpperCase) \cup CharsOf(LowerCase) \cup CharsOf(Digits)
                 \cup {"_"}

\* chars from offset from (1-based) to its end
From(chars, from) == SubSeq(chars, from, Len(chars))

\* pattern stands in chars at offset at (1-based), case folded
StandsAt(pattern, chars, at) ==
    /\ at + Len(pattern) - 1 <= Len(chars)
    /\ \A i \in 1..Len(pattern) : ToLower(chars[at + i - 1]) = pattern[i]

\* a.charCodeAt(i) ^ b.charCodeAt(i): 0 for equal code units, else the bits
\* they differ in (1 stands for any of them)
CodeUnitXor(x, y) == IF x = y THEN 0 ELSE 1

\* result |= ..., over the code units of a
RECURSIVE OrOfXors(_, _, _)
OrOfXors(a, b, i) ==
    IF i > Len(a) THEN 0
    ELSE IF CodeUnitXor(a[i], b[i]) # 0 \/ OrOfXors(a, b, i + 1) # 0
    THEN 1
    ELSE 0

\* (a comparison of the lengths alone)
timingSafeEqualLengths(a, b) == Len(a) = Len(b)

timingSafeEqual(a, b) ==
    IF Len(a) # Len(b) THEN FALSE ELSE OrOfXors(a, b, 1) = 0

\* (a check a request without any secret passes)
validateShardSecretLenient(providedSecret, expectedSecret) ==
    IF ~Truthy(expectedSecret) THEN TRUE
    ELSE IF ~Truthy(providedSecret) THEN TRUE
    ELSE timingSafeEqual(providedSecret.s, expectedSecret.s)

validateShardSecret(providedSecret, expectedSecret) ==
    IF ~Truthy(expectedSecret) THEN TRUE
    ELSE IF ~Truthy(providedSecret) THEN FALSE
    ELSE timingSafeEqual(providedSecret.s, expectedSecret.s)

\* input.replace(/[<>]/g, '')
StripAngles(chars) == SelectSeq(chars, LAMBDA c : c \notin {"<", ">"})

\* chars without the positions that Covered holds of, in their order
Without(chars, Covered(_)) ==
    LET kept == { i \in 1..Len(chars) : ~Covered(i) }
        Nth(k) == CHOOSE i \in kept :
                      Cardinality({ j \in kept : j <= i }) = k
    IN IF Cardinality(kept) = Len(chars) THEN chars
       ELSE [k \in 1..Cardinality(kept) |-> chars[Nth(k)]]

\* input.replace(/javascript:/gi, ''): one pass from the left; no two
\* occurrences of this pattern overlap, so every occurrence is removed
StripProtocol(chars) ==
    LET starts == { p \in 1..Len(chars) : StandsAt(<<"j", "a", "v", "a", "s",
                                                     "c", "r", "i", "p", "t",
                                                     ":">>, chars, p) }
        Covered(i) == \E p \in starts : p <= i /\ i < p + Len(<<"j", "a",
                                                                "v", "a",
                                                                "s", "c",
                                                                "r", "i",
                                                                "p", "t",
                                                                ":">>)
    IN Without(chars, Covered)

\* the length of the run of \w characters that chars has from offset from
WordRun(chars, from) ==
    LET stops == { i \in from..Len(chars) : chars[i] \notin WordChars }
        stop == IF stops = {} THEN Len(chars) + 1
                ELSE CHOOSE i \in stops : \A j \in stops : i <= j
    IN stop - from

\* the length of the match of /on\w+=/i at offset at of chars, 0 for none:
\* \w+ takes the whole run of word characters, since = is none of them
HandlerMatch(chars, at) ==
    IF ~StandsAt(<<"o", "n">>, chars, at) THEN 0
    ELSE LET run == WordRun(chars, at + 2)
             after == at + 2 + run
         IN IF run >= 1 /\ after <= Len(chars) /\ chars[after] = "="
            THEN 3 + run
            ELSE 0

\* input.replace(/on\w+=/gi, ''): one pass from the left. A match that
\* starts within another ends at the same = sign, so what the pass removes
\* is what the matches at all offsets cover.
StripHandlers(chars) ==
    LET starts == { p \in 1..Len(chars) : HandlerMatch(chars, p) > 0 }
        Covered(i) ==
            \E p \in starts : p <= i /\ i < p + HandlerMatch(chars, p)
    IN Without(chars, Covered)

\* String.prototype.trim (the model's only white space is the space)
RECURSIVE TrimStart(_)
TrimStart(chars) ==
    IF chars # <<>> /\ chars[1] = " " THEN TrimStart(Tail(chars)) ELSE chars

RECURSIVE TrimEnd(_)
TrimEnd(chars) ==
    IF chars # <<>> /\ chars[Len(chars)] = " "
    THEN TrimEnd(SubSeq(chars, 1, Len(chars) - 1))
    ELSE chars

Trim(chars) == TrimEnd(TrimStart(chars))

\* String.prototype.substring(0, 1000)
Substring1000(chars) ==
    SubSeq(chars, 1, IF Len(chars) < 1000 THEN Len(chars) ELSE 1000)

\* sanitizeInput of a string
sanitizeInput(chars) ==
    Substring1000(Trim(StripHandlers(StripProtocol(StripAngles(chars)))))

\* what the escaping sanitizeInput puts for a character
Entity(c) ==
    CASE c = "&" -> <<"&", "a", "m", "p", ";">>
      [] c = "<" -> <<"&", "l", "t", ";">>
      [] c = ">" -> <<"&", "g", "t", ";">>
      [] c = "\"" -> <<"&", "q", "u", "o", "t", ";">>
      [] c = "'" -> <<"&", "#", "0", "3", "9", ";">>
      [] OTHER -> << c >>

HtmlSpecial == {"&", "<", ">", "\"", "'"}

\* the five replace calls of the escaping sanitizeInput. The ampersand is
\* replaced first, so none of the entities put afterwards is escaped
\* again: every character of the input is replaced by its entity.
EscapeHtml(chars) ==
    LET End(i) ==
            i + 4 * Cardinality({ j \in 1..i : chars[j] = "&" })
              + 3 * Cardinality({ j \in 1..i : chars[j] \in {"<", ">"} })
              + 5 * Cardinality({ j \in 1..i : chars[j] = "\"" })
              + 5 * Cardinality({ j \in 1..i : chars[j] = "'" })
        Source(k) == CHOOSE i \in 1..Len(chars) : End(i - 1) < k /\ k <= End(i)
    IN IF \A i \in 1..Len(chars) : chars[i] \notin HtmlSpecial THEN chars
       ELSE [k \in 1..End(Len(chars)) |->
                Entity(chars[Source(k)])[k - End(Source(k) - 1)]]

\* sanitizeInput of a string, in the variant that escapes
\* (src/unnamed/part_000)
sanitizeInputEscaping(chars) == Substring1000(Trim(EscapeHtml(chars)))

\* sanitizeObject of a value that is no plain object, Clean being the
\* sanitizeInput of the variant; the items of the model's arrays are
\* strings
sanitizeValueWith(Clean(_), v) ==
    CASE v.t = "string" -> [v EXCEPT !.s = Clean(v.s)]
      [] v.t = "array" ->
             [v EXCEPT !.a = [i \in 1..Len(v.a) |-> Clean(v.a[i])]]
      [] OTHER -> v

\* sanitizeObject(obj). No key of the model's events holds anything that
\* either sanitizeInput changes in a key.
sanitizeObjectWith(Clean(_), obj) ==
    IF obj.t = "object"
    THEN [obj EXCEPT !.description = sanitizeValueWith(Clean, @),
                     !.text = sanitizeValueWith(Clean, @),
                     !.timestamp = sanitizeValueWith(Clean, @),
                     !.Site = sanitizeValueWith(Clean, @),
                     !.Controller = sanitizeValueWith(Clean, @),
                     !.site = sanitizeValueWith(Clean, @),
                     !.controllerId = sanitizeValueWith(Clean, @)]
    ELSE NonObject(sanitizeValueWith(Clean, obj))

\* the two variants of the validator: src/src/validator.js removes,
\* src/unnamed/part_000 escapes
sanitizeObject(obj) == sanitizeObjectWith(sanitizeInput, obj)
sanitizeObjectEscaping(obj) == sanitizeObjectWith(sanitizeInputEscaping, obj)

\* a Date object holding the instant ms
DateOf(ms) == [t |-> "date", s |-> <<>>, a |-> <<>>, n |-> ms]

\* Joi.string().optional(): absent, or a string that is not empty
JoiString(v) ==
    CASE v.t = "undefined" -> ""
      [] v.t = "string" ->
             IF v.s = <<>> THEN "is not allowed to be empty" ELSE ""
      [] OTHER -> "must be a string"

\* Joi.array().items(Joi.string()).optional()
JoiStringArray(v) ==
    CASE v.t = "undefined" -> ""
      [] v.t = "array" ->
             IF \E i \in 1..Len(v.a) : v.a[i] = <<>>
             THEN "is not allowed to be empty"
             ELSE ""
      [] OTHER -> "must be an array"

\* Joi.date().timestamp().optional(): a number is taken as milliseconds
\* and converted to a Date; the model's strings are no numbers
JoiTimestamp(v) ==
    CASE v.t = "undefined" -> ""
      [] v.t = "number" -> ""
      [] OTHER -> "must be a valid date"

JoiConverted(v) == IF v.t = "number" THEN DateOf(v.n) ELSE v

SchemaResult(isValid, error, value) ==
    [isValid |-> isValid, error |-> error, value |-> value]

\* validateOmadaPayload(payload): omadaWebhookSchema.validate, which stops
\* at the first key, in the order of the schema, that is in error. Unknown
\* keys pass; undefined passes, as the schema does not require the object.
validateOmadaPayload(payload) ==
    IF payload.t = "undefined" THEN SchemaResult(TRUE, "", payload)
    ELSE IF payload.t # "object"
    THEN SchemaResult(FALSE, "must be of type object", NonObject(Null))
    ELSE LET errors == << JoiString(payload.Site),
                          JoiString(payload.description),
                          JoiStringArray(payload.text),
                          JoiString(payload.Controller),
                          JoiTimestamp(payload.timestamp) >>
             found == { i \in 1..Len(errors) : errors[i] # "" }
         IN IF found # {}
            THEN SchemaResult(FALSE,
                              errors[CHOOSE i \in found :
                                         \A j \in found : i <= j],
                              NonObject(Null))
            ELSE SchemaResult(TRUE, "",
                     [payload EXCEPT !.timestamp = JoiConverted(@)])

\* the three headers that may carry the secret
Header(xShardSecret, access_token, authorization) ==
    [xShardSecret |-> xShardSecret, access_token |-> access_token,
     authorization |-> authorization]

Answer(status, success) == [status |-> status, success |-> success]
NoAnswer == Answer(0, FALSE)

\* a request: what it carried, where its handler stands, and what the
\* handler has invoked for it so far
NoRequest ==
    [pc |-> "none", headers |-> Header(Undefined, Undefined, Undefined),
     body |-> NonObject(Undefined), translated |-> FALSE, sent |-> FALSE,
     slot |-> 0, answer |-> NoAnswer]


\* a call of a function of the validator on its own: the function, its
\* arguments, and what it returned (ret.t = "pending" before it has)
NotReturned == [t |-> "pending", s |-> <<>>, a |-> <<>>, n |-> 0]
Call(fn, a, b) == [fn |-> fn, a |-> a, b |-> b, ret |-> NotReturned]
NoCall == Call("", Undefined, Undefined)
---------------------------------------------------------------------------
(* discord-sender.js: DiscordSender.send and handleRateLimit                *)

MaxSends == 2        \* send calls issued in one run
RateLimitDelay == 2  \* this.rateLimitDelay, in clock ticks
Horizon == 5         \* clock ticks the model lets pass

\* Date.now() when the process starts: far more than rateLimitDelay after
\* the epoch that lastSentTime = 0 denotes
StartTime == RateLimitDelay + 2
MaxTime == StartTime + Horizon

\* the send calls, numbered in the order they are issued
Callers == 1..MaxSends

\* handleRateLimit: the delay it suspends the caller for, 0 when it returns
\* without suspending
handleRateLimitFullDelay(clock, last) ==
    LET timeSinceLastSent == clock - last
    IN IF timeSinceLastSent < RateLimitDelay THEN RateLimitDelay ELSE 0

\* (the subtraction with its operands exchanged)
handleRateLimitExchanged(clock, last) ==
    LET timeSinceLastSent == last - clock
    IN IF timeSinceLastSent < RateLimitDelay
       THEN RateLimitDelay - timeSinceLastSent
       ELSE 0

handleRateLimitShort(clock, last) ==
    LET timeSinceLastSent == clock - last
    IN IF timeSinceLastSent < RateLimitDelay - 1
       THEN RateLimitDelay - 1 - timeSinceLastSent
       ELSE 0

handleRateLimit(clock, last) ==
    LET timeSinceLastSent == clock - last
    IN IF timeSinceLastSent < RateLimitDelay
       THEN RateLimitDelay - timeSinceLastSent
       ELSE 0

\* What a failed network call rejects with: an HTTP status of the response
\* (0: no response), the error's code.
Failure(status, code) == [status |-> status, code |-> code]

ResponseFailures ==
    { Failure(429, ""), Failure(400, ""), Failure(404, ""),
      Failure(500, ""), Failure(403, "") }
TransportFailures ==
    { Failure(0, "ECONNABORTED"), Failure(0, "ECONNREFUSED"),
      Failure(0, "ENOTFOUND"), Failure(0, "ECONNRESET") }
\* discord.js reports the API's JSON error code beside the status
ApiFailures == { Failure(404, "10015"), Failure(400, "50035") }

Sent == [ok |-> TRUE, error |-> "", detail |-> ""]
SendError(error, detail) == [ok |-> FALSE, error |-> error, detail |-> detail]

\* (a catch block with six kinds only: every failure without a kind of its
\* own is the generic one)
classifyAxiosSixKinds(failure) ==
    IF failure.status = 429 THEN SendError("Rate limited", "")
    ELSE IF failure.status = 404
    THEN SendError("Discord webhook not found", "")
    ELSE IF failure.status >= 500 THEN SendError("Discord server error", "")
    ELSE IF failure.status = 0 /\ failure.code = "ECONNABORTED"
    THEN SendError("Request timeout", "")
    ELSE IF failure.status = 0 /\ failure.code \in {"ECONNREFUSED",
        "ENOTFOUND"}
    THEN SendError("Network error", "")
    ELSE SendError("Failed to send webhook", failure.code)

\* the catch block of send (axios): the error thrown for a failure
classifyAxios(failure) ==
    IF failure.status # 0
    THEN CASE failure.status = 429 -> SendError("Rate limited", "")
           [] failure.status = 400 -> SendError("Invalid payload", "")
           [] failure.status = 404 ->
                  SendError("Discord webhook not found", "")
           [] failure.status >= 500 -> SendError("Discord server error", "")
           [] OTHER -> SendError("Discord API error", "")
    ELSE IF failure.code = "ECONNABORTED"
    THEN SendError("Request timeout", "")
    ELSE IF failure.code \in {"ECONNREFUSED", "ENOTFOUND"}
    THEN SendError("Network error", "")
    ELSE SendError("Failed to send webhook", failure.code)

\* the catch block of send (discord.js)
classifyDiscordJs(failure) ==
    IF failure.code = "10015" THEN SendError("Discord webhook not found", "")
    ELSE IF failure.code = "50035" THEN SendError("Invalid payload", "")
    ELSE IF failure.status = 429 THEN SendError("Rate limited", "")
    ELSE IF failure.status >= 500 THEN SendError("Discord server error", "")
    ELSE SendError("Failed to send webhook", failure.code)

\* An error that was thrown before any network call (by validatePayload, by
\* a builder) has neither response nor code: both catch blocks end in their
\* last branch.
classifyThrown(message) == SendError("Failed to send webhook", message)

\* The EmbedBuilder setters of discord.js check, for the embed they build,
\* the limits of title, description, fields, footer and author; whether
\* they throw is the library's business, and the model leaves it open.
BuilderMayThrow(payload) ==
    /\ payload.embedsKind = "array"
    /\ \E i \in 1..Len(payload.embeds) :
           LET v == validateEmbed(payload.embeds[i], i - 1)
           IN ~v.ok /\ v.error # "total length must be 6000 characters or less"

ValidMessage == MessageOf(0, 16, << EmbedOf(11, 20, 0, 0, <<>>) >>)
TooManyFields ==
    MessageOf(0, 16, << EmbedOf(11, 20, 0, 0, Repeat(FieldOf(1, 1), 26)) >>)
LongContent == MessageOf(2001, 16, << EmbedOf(11, 20, 0, 0, <<>>) >>)
SendMessages == { ValidMessage, TooManyFields, LongContent }

\* testConnection's fixed message: one embed with a title, a description and
\* a footer text, no content, no username
TestPayload == MessageOf(0, 0, << EmbedOf(18, 61, 30, 0, <<>>) >>)

NoResult == SendError("pending", "")

\* what a call of testConnection ends in: the object it returns, or the
\* error it throws
Report(outcome, success, message, detail) ==
    [outcome |-> outcome, success |-> success, message |-> message,
     detail |-> detail]
NoReport == Report("pending", FALSE, "", "")

IdleSlot ==
    [pc |-> "idle", msg |-> ValidMessage, checkedAt |-> 0, delay |-> 0,
     posted |-> FALSE, postedAt |-> 0, result |-> NoResult,
     report |-> NoReport]

\* the latest send to end (any, ok, at) and how the latest network call to
\* end went (net: "none" before the first has ended)
NeverDone == [any |-> FALSE, ok |-> FALSE, at |-> 0, net |-> "none"]

---------------------------------------------------------------------------
(* The state machines                                                      *)

Pending == Thrown("pending")
NoPrev == [message |-> Undefined, type |-> NoEntry, any |-> FALSE]
NotValidated == Rejected("pending")

TranslatorInit ==
    /\ event \in Events
    /\ out = Pending
    /\ prev = NoPrev
    /\ lastIndex = NeverTested

TranslatorIdle ==
    /\ event = NonObject(Undefined)
    /\ out = Pending
    /\ prev = NoPrev
    /\ lastIndex = NeverTested

ValidatorInit ==
    /\ candidate \in Candidates
    /\ verdict = NotValidated

ValidatorIdle ==
    /\ candidate = ValidMessage
    /\ verdict = NotValidated

\* the constructor: lastSentTime = 0, nothing in flight
SenderInit ==
    /\ impl \in {"axios", "discordjs"}
    /\ lastSentTime = 0
    /\ call = [c \in Callers |-> IdleSlot]
    /\ dispatches = <<>>
    /\ lastDone = NeverDone

SenderIdle == SenderInit /\ impl = "axios"

\* the server before its first request, no secret configured
ServerIdle ==
    /\ shardSecret = Undefined
    /\ vcall = NoCall
    /\ req = [r \in Callers |-> NoRequest]

\* translator.translate(event) runs to its end
Translate ==
    /\ out = Pending
    /\ \E translated \in {translateFrom(event, now, lastIndex)} :
           /\ out' = translated.out
           /\ lastIndex' = translated.lastIndex
    /\ UNCHANGED <<now, event, prev, validatorVars, senderVars,
                   serverVars>>

\* the next event arrives; the body and rule of the finished call are kept
Receive(e) ==
    /\ out # Pending
    /\ event' = e
    /\ out' = Pending
    /\ prev' = IF out.threw = ""
               THEN [message |-> out.payload.embeds[1].description,
                     type |-> out.type, any |-> TRUE]
               ELSE prev
    /\ UNCHANGED <<now, lastIndex, validatorVars, senderVars, serverVars>>

\* validatePayload(candidate) runs to its end
Validate ==
    /\ verdict = NotValidated
    /\ verdict' = validatePayload(candidate)
    /\ UNCHANGED <<now, candidate, translatorVars, senderVars,
                   serverVars>>

\* history of network calls: the start of the latest, and of the one before
Started(history, at) ==
    IF Len(history) < 2 THEN Append(history, at) ELSE << history[2], at >>

\* The network call starts: axios.post / webhookClient.send is entered.
Posting(slot) ==
    [slot EXCEPT !.pc = "posting", !.posted = TRUE, !.postedAt = now]

\* (a send that, instead of ending in an error, goes back to wait and try
\* its network call again)
EndingOrRetrying(slot, result) ==
    IF result.ok \/ ~slot.posted
    THEN [slot EXCEPT !.pc = "done", !.result = result, !.checkedAt = 0,
                      !.delay = 0, !.postedAt = 0]
    ELSE [slot EXCEPT !.pc = "waiting", !.checkedAt = now, !.delay = 0,
                      !.postedAt = 0]

\* The send ends with result; the times of its steps are history no more.
Ending(slot, result) ==
    [slot EXCEPT !.pc = "done", !.result = result, !.checkedAt = 0,
                 !.delay = 0, !.postedAt = 0]

\* The send ends before any network call, with the error thrown.
Failing(slot, message) == Ending(slot, classifyThrown(message))

\* send(payload), from its entry to its first suspension. The axios variant
\* validates, then handleRateLimit reads the clock and lastSentTime, then
\* either the timer is armed or the network call starts; no other code runs
\* in between (an await of a settled promise resumes within the same turn
\* of the event loop). The discord.js variant does the same without
\* validatePayload, and builds its embeds before the network call. What the
\* caller does in that same turn (serverVars) is the caller's to say.
Send(c, payload) ==
    /\ call[c].pc = "idle"
    /\ c > 1 => call[c - 1].pc # "idle"
    /\ LET valid == validatePayload(payload)
           delay == handleRateLimit(now, lastSentTime)
           entered == [IdleSlot EXCEPT !.msg = payload, !.checkedAt = now,
                                       !.delay = delay]
       IN IF impl = "axios" /\ ~valid.ok
          THEN /\ call' = [call EXCEPT ![c] =
                              Failing([IdleSlot EXCEPT !.msg = payload],
                                      valid.error)]
               /\ lastDone' = [lastDone EXCEPT !.any = TRUE, !.ok = FALSE,
                                                !.at = now]
               /\ UNCHANGED dispatches
          ELSE IF delay > 0
          THEN /\ call' = [call EXCEPT ![c] =
                              [entered EXCEPT !.pc = "waiting"]]
               /\ UNCHANGED <<dispatches, lastDone>>
          ELSE IF impl = "discordjs" /\ BuilderMayThrow(payload)
          THEN \/ /\ call' = [call EXCEPT ![c] = Failing(entered, "builder")]
                  /\ lastDone' = [lastDone EXCEPT !.any = TRUE, !.ok = FALSE,
                                                !.at = now]
                  /\ UNCHANGED dispatches
               \/ /\ call' = [call EXCEPT ![c] = Posting(entered)]
                  /\ dispatches' = Started(dispatches, now)
                  /\ UNCHANGED lastDone
          ELSE /\ call' = [call EXCEPT ![c] = Posting(entered)]
               /\ dispatches' = Started(dispatches, now)
               /\ UNCHANGED lastDone
    /\ UNCHANGED <<now, impl, lastSentTime, translatorVars, validatorVars>>

\* (a timer that, when it fires, is armed again)
TimerFiresAndRearms(c) ==
    /\ call[c].pc = "waiting"
    /\ now >= call[c].checkedAt + call[c].delay
    /\ call' = [call EXCEPT ![c] = [@ EXCEPT !.checkedAt = now]]
    /\ UNCHANGED <<now, impl, lastSentTime, dispatches, lastDone,
                   translatorVars, validatorVars, serverVars>>

\* setTimeout(resolve, delay) fires, no earlier than asked; send resumes and
\* starts the network call.
TimerFires(c) ==
    /\ call[c].pc = "waiting"
    /\ now >= call[c].checkedAt + call[c].delay
    /\ IF impl = "discordjs" /\ BuilderMayThrow(call[c].msg)
       THEN \/ /\ call' = [call EXCEPT ![c] = Failing(call[c], "builder")]
               /\ lastDone' = [lastDone EXCEPT !.any = TRUE, !.ok = FALSE,
                                                !.at = now]
               /\ UNCHANGED dispatches
            \/ /\ call' = [call EXCEPT ![c] = Posting(call[c])]
               /\ dispatches' = Started(dispatches, now)
               /\ UNCHANGED lastDone
       ELSE /\ call' = [call EXCEPT ![c] = Posting(call[c])]
            /\ dispatches' = Started(dispatches, now)
            /\ UNCHANGED lastDone
    /\ UNCHANGED <<now, impl, lastSentTime, translatorVars, validatorVars,
                   serverVars>>

\* (a send that would stamp lastSentTime with the time its network call
\* started)
ResolvesStampsStart(c) ==
    /\ call[c].pc = "posting"
    /\ validatePayload(call[c].msg).ok
    /\ lastSentTime' = call[c].postedAt
    /\ call' = [call EXCEPT ![c] = Ending(call[c], Sent)]
    /\ lastDone' = [any |-> TRUE, ok |-> TRUE, at |-> now, net |-> "ok"]
    /\ UNCHANGED <<now, impl, dispatches, translatorVars, validatorVars,
                   serverVars>>

\* The network call resolves: lastSentTime = Date.now(), and send returns.
\* Discord enforces the limits validatePayload checks, so only a payload
\* within them is accepted.
Resolves(c) ==
    /\ call[c].pc = "posting"
    /\ validatePayload(call[c].msg).ok
    /\ lastSentTime' = now
    /\ call' = [call EXCEPT ![c] = Ending(call[c], Sent)]
    /\ lastDone' = [any |-> TRUE, ok |-> TRUE, at |-> now, net |-> "ok"]
    /\ UNCHANGED <<now, impl, dispatches, translatorVars, validatorVars,
                   serverVars>>

\* (a catch block that would also stamp lastSentTime)
RejectsAndStamps(c, failure) ==
    /\ call[c].pc = "posting"
    /\ call' = [call EXCEPT ![c] =
                   Ending(call[c], IF impl = "axios"
                                   THEN classifyAxios(failure)
                                   ELSE classifyDiscordJs(failure))]
    /\ lastSentTime' = now
    /\ lastDone' = [any |-> TRUE, ok |-> FALSE, at |-> now,
                    net |-> "failed"]
    /\ UNCHANGED <<now, impl, dispatches, translatorVars, validatorVars,
                   serverVars>>

\* The network call rejects: the catch block throws the classified error.
Rejects(c, failure) ==
    /\ call[c].pc = "posting"
    /\ call' = [call EXCEPT ![c] =
                   Ending(call[c], IF impl = "axios"
                                   THEN classifyAxios(failure)
                                   ELSE classifyDiscordJs(failure))]
    /\ lastDone' = [any |-> TRUE, ok |-> FALSE, at |-> now,
                    net |-> "failed"]
    /\ UNCHANGED <<now, impl, lastSentTime, dispatches, translatorVars,
                   validatorVars, serverVars>>

\* testConnection(): builds its message and awaits send(testPayload); what
\* it does beyond that is turn the outcome of send into its report.
testConnection(c) == Send(c, TestPayload)

\* (a testConnection whose catch block throws the error on)
TestReportRethrows(result) ==
    IF result.ok
    THEN Report("returned", TRUE, "Discord webhook connection successful", "")
    ELSE Report("threw", FALSE, result.error, result.detail)

\* ${error.message} of the error send threw: its kind, and the text
\* behind it where the kind carries one
TestReport(result) ==
    IF result.ok
    THEN Report("returned", TRUE, "Discord webhook connection successful", "")
    ELSE Report("returned", FALSE, "Discord webhook connection failed",
                result.error)

\* The send that testConnection awaits has ended: testConnection returns.
TestReturns(c) ==
    /\ call[c].pc = "done"
    /\ call[c].msg = TestPayload
    /\ call' = [call EXCEPT ![c] =
                   [@ EXCEPT !.pc = "returned",
                             !.report = TestReport(call[c].result)]]
    /\ UNCHANGED <<now, impl, lastSentTime, dispatches, lastDone,
                   translatorVars, validatorVars, serverVars>>

\* The caller has taken its outcome; what it does with it (serverVars) is
\* the caller's to say.
Returns(c) ==
    /\ call[c].pc = "done"
    /\ call' = [call EXCEPT ![c] = [IdleSlot EXCEPT !.pc = "returned"]]
    /\ UNCHANGED <<now, impl, lastSentTime, dispatches, lastDone,
                   translatorVars, validatorVars>>

\* Time passes.
Tick ==
    /\ now < MaxTime
    /\ now' = now + 1
    /\ UNCHANGED <<translatorVars, validatorVars, senderVars,
                   serverVars>>

\* A caller outside the server: it changes nothing of the server's.
SendAnyTime(c, payload) == Send(c, payload) /\ UNCHANGED serverVars
Return(c) == Returns(c) /\ UNCHANGED serverVars

\* A caller that issues a send only when its earlier sends have ended.
NoneInFlight ==
    \A c \in Callers : call[c].pc \in {"idle", "done", "returned"}
SendInTurn(c, payload) ==
    NoneInFlight /\ Send(c, payload) /\ UNCHANGED serverVars
TestInTurn(c) ==
    NoneInFlight /\ testConnection(c) /\ UNCHANGED serverVars

\* the failures the model lets the network produce under send
NetworkFailures == { Failure(429, ""), Failure(0, "ECONNABORTED") }

\* every failure the model knows
AllFailures == ResponseFailures \cup TransportFailures \cup ApiFailures

\* A caller that tests the connection when every earlier test has returned.
TestAlone(c) ==
    /\ \A d \in Callers : call[d].pc \in {"idle", "returned"}
    /\ testConnection(c)
    /\ UNCHANGED serverVars

\* A caller that issues a send only when every earlier one has returned.
SendAlone(c, payload) ==
    /\ \A d \in Callers : call[d].pc \in {"idle", "returned"}
    /\ Send(c, payload)
    /\ UNCHANGED serverVars

InitTranslate ==
    /\ now = StartTime
    /\ TranslatorInit /\ ValidatorIdle /\ SenderIdle /\ ServerIdle
NextTranslate == Translate \/ \E e \in Events : Receive(e)
SpecTranslate == InitTranslate /\ [][NextTranslate]_vars

InitValidate ==
    /\ now = StartTime
    /\ TranslatorIdle /\ ValidatorInit /\ SenderIdle /\ ServerIdle
NextValidate == Validate
SpecValidate == InitValidate /\ [][NextValidate]_vars

InitSend ==
    /\ now = StartTime
    /\ TranslatorIdle /\ ValidatorIdle /\ SenderInit /\ ServerIdle

\* send calls overlapping as the server's concurrent requests make them
NextSend ==
    \/ \E c \in Callers, payload \in SendMessages : SendAnyTime(c, payload)
    \/ \E c \in Callers : TimerFires(c)
    \/ \E c \in Callers : Resolves(c)
    \/ \E c \in Callers, failure \in NetworkFailures : Rejects(c, failure)
    \/ \E c \in Callers : Return(c)
    \/ Tick
SpecSend == InitSend /\ [][NextSend]_vars

\* send calls issued one after the other
NextSeq ==
    \/ \E c \in Callers, payload \in SendMessages : SendInTurn(c, payload)
    \/ \E c \in Callers : TestInTurn(c)
    \/ \E c \in Callers : TimerFires(c)
    \/ \E c \in Callers : Resolves(c)
    \/ \E c \in Callers, failure \in NetworkFailures : Rejects(c, failure)
    \/ \E c \in Callers : Return(c)
    \/ Tick
SpecSeq == InitSend /\ [][NextSeq]_vars

\* send calls issued one at a time, the network failing in every known way
NextFail ==
    \/ \E c \in Callers, payload \in SendMessages : SendAlone(c, payload)
    \/ \E c \in Callers : TimerFires(c)
    \/ \E c \in Callers : Resolves(c)
    \/ \E c \in Callers, failure \in AllFailures : Rejects(c, failure)
    \/ \E c \in Callers : Return(c)
    \/ Tick
SpecFail == InitSend /\ [][NextFail]_vars

\* testConnection called time and again, the network failing in every
\* known way
NextTest ==
    \/ \E c \in Callers : TestAlone(c)
    \/ \E c \in Callers : TimerFires(c)
    \/ \E c \in Callers : Resolves(c)
    \/ \E c \in Callers, failure \in AllFailures : Rejects(c, failure)
    \/ \E c \in Callers : TestReturns(c)
    \/ Tick
SpecTest == InitSend /\ [][NextTest]_vars

\* send and testConnection called at any time, whatever is in flight
TestAnyTime(c) == testConnection(c) /\ UNCHANGED serverVars
NextAny ==
    \/ \E c \in Callers : SendAnyTime(c, ValidMessage)
    \/ \E c \in Callers : TestAnyTime(c)
    \/ \E c \in Callers : TimerFires(c)
    \/ \E c \in Callers : Resolves(c)
    \/ \E c \in Callers : Rejects(c, Failure(429, ""))
    \/ \E c \in Callers : Return(c)
    \/ Tick
SpecAny == InitSend /\ [][NextAny]_vars

\* Concurrent sends under the conditions their completion depends on: time
\* passes, a timer that is due fires, a network call resolves or rejects
\* (axios gives up after its 10 second timeout). A send is entered while
\* the clock of the model leaves room for its wait.
SendInTime(c, payload) ==
    now + RateLimitDelay <= MaxTime /\ SendAnyTime(c, payload)
Settles(c) == Resolves(c) \/ Rejects(c, Failure(0, "ECONNABORTED"))
NextLive ==
    \/ \E c \in Callers : SendInTime(c, ValidMessage)
    \/ \E c \in Callers : TimerFires(c)
    \/ \E c \in Callers : Settles(c)
    \/ \E c \in Callers : Return(c)
    \/ Tick
Fairness ==
    /\ WF_vars(Tick)
    /\ \A c \in Callers : WF_vars(TimerFires(c)) /\ WF_vars(Settles(c))
InitLive == InitSend /\ impl = "axios"
SpecLive == InitLive /\ [][NextLive]_vars /\ Fairness
---------------------------------------------------------------------------
(* The server (the second half of src/src/validator.js): POST              *)
(* /webhook/omada. express.json has parsed the body before the route runs: *)
(* what reaches it is an object or an array.                               *)

\* str.replace('Bearer ', ''): the first occurrence, letter case kept
ReplaceFirst(chars, pattern) ==
    IF Occurs(pattern, chars)
    THEN LET off == CHOOSE o \in 0..(Len(chars) - Len(pattern)) :
                      /\ \A i \in 1..Len(pattern) : chars[o + i] = pattern[i]
                      /\ \A p \in 0..(o - 1) :
                             \E i \in 1..Len(pattern) :
                                 chars[p + i] # pattern[i]
         IN SubSeq(chars, 1, off) \o From(chars, off + Len(pattern) + 1)
    ELSE chars

\* req.headers['authorization']?.replace('Bearer ', '')
BearerOf(authorization) ==
    IF authorization.t = "string"
    THEN Str(ReplaceFirst(authorization.s, <<"B", "e", "a", "r", "e", "r",
                                             " ">>))
    ELSE Undefined

\* a || b || c of line 282
ProvidedSecret(headers) ==
    IF Truthy(headers.xShardSecret) THEN headers.xShardSecret
    ELSE IF Truthy(headers.access_token) THEN headers.access_token
    ELSE BearerOf(headers.authorization)

\* authenticateWebhook: TRUE when it calls next(), FALSE when it answers 401
authenticateWebhook(headers, expectedSecret) ==
    IF Truthy(expectedSecret)
    THEN validateShardSecret(ProvidedSecret(headers), expectedSecret)
    ELSE TRUE

\* what validatePayload reads of a message that translate built: lengths.
\* A title of the source leads with an emoji and a space, at most four code
\* units, that EVENT_TITLES of this model leaves out.
LengthOf(v) == IF v.t = "string" THEN Len(v.s) ELSE 0

Measured(payload) ==
    MessageOf(LengthOf(payload.content), Len(payload.username),
              [i \in 1..Len(payload.embeds) |->
                  LET embed == payload.embeds[i]
                  IN EmbedOf(Len(embed.title) + 4,
                             LengthOf(embed.description), 0, 0,
                             [k \in 1..Len(embed.fields) |->
                                 FieldOf(Len(embed.fields[k].name),
                                         LengthOf(embed.fields[k].value))])])

ConfiguredSecret == Str(<<"s", "3", "c", "r", "e", "t", "-", "k", "e", "y">>)

NoHeader == Header(Undefined, Undefined, Undefined)
RightHeader == Header(ConfiguredSecret, Undefined, Undefined)

DescriptionOnly(description) ==
    Payload(description, Undefined, Undefined, Undefined, Undefined,
            Undefined, Undefined)
AttackBody ==
    Payload(Str(<<"D", "D", "o", "S", " ", "a", "t", "t", "a", "c", "k", " ",
                  "d", "e", "t", "e", "c", "t", "e", "d">>), Undefined,
                  Num(5), Str(<<"H", "Q">>),
            Undefined, Undefined, Undefined)
OfflineBody ==
    Payload(Undefined, Arr(<< <<"D", "e", "v", "i", "c", "e", " ", "O", "f",
                                "f", "l", "i", "n", "e">>, <<"A", "P", "-",
                                "1", " ", "d", "i", "s", "c", "o", "n", "n",
                                "e", "c", "t", "e", "d">> >>),
            Undefined, Undefined, Str(<<"C", "1">>), Undefined, Undefined)

\* eleven detail lines of a hundred characters each: every leaf is short,
\* the lines joined are longer than a field value may be
LongTextBody ==
    Payload(Undefined, Arr(Repeat(Repeat("a", 100), 11)), Undefined,
            Undefined, Undefined, Undefined, Undefined)

Request(headers, body) == [headers |-> headers, body |-> body]

\* The requests the model posts. The secret: absent, in each of the three
\* headers, off by one character, too short, behind an empty or a wrong
\* first header. The body: well formed, a description that sanitizing
\* empties, a text that is no array, a timestamp that is no date, an
\* array, and none at all (no JSON content type: nothing was parsed).
WebhookRequests ==
    { Request(NoHeader, AttackBody),
      Request(RightHeader, AttackBody),
      Request(Header(Undefined, Undefined, Str(<<"B", "e", "a", "r", "e",
                                                 "r", " ", "s", "3", "c",
                                                 "r", "e", "t", "-", "k",
                                                 "e", "y">>)),
              OfflineBody),
      Request(Header(Str(<<>>), ConfiguredSecret, Undefined),
              DescriptionOnly(Undefined)),
      Request(Header(Str(<<"s", "3", "c", "r", "e", "t", "-", "k", "e",
                           "z">>), Undefined, Undefined), AttackBody),
      Request(Header(Str(<<"s", "3", "c", "r", "e", "t">>), Undefined,
                           Undefined), AttackBody),
      Request(Header(Str(<<"g", "u", "e", "s", "s">>), ConfiguredSecret,
                           Undefined), AttackBody),
      Request(RightHeader, DescriptionOnly(Str(<<" ", "<", ">", " ">>))),
      Request(RightHeader,
              Payload(Undefined, Str(<<"f", "l", "o", "o", "d">>), Undefined,
                                       Undefined,
                      Undefined, Undefined, Undefined)),
      Request(RightHeader,
              Payload(Str(<<"a", "t", "t", "a", "c", "k">>), Undefined,
                            Str(<<"s", "o", "o", "n">>), Undefined,
                      Undefined, Undefined, Undefined)),
      Request(RightHeader, NonObject(Arr(<< <<"a", "t", "t", "a", "c",
                                              "k">> >>))),
      Request(RightHeader, NonObject(Undefined)),
      Request(NoHeader, DescriptionOnly(Str(<<" ", "<", ">", " ">>))) }

Arrived(headers, body) ==
    [NoRequest EXCEPT !.pc = "answered", !.headers = headers, !.body = body]

\* the send call of the next request that gets that far
FreeSlot == CHOOSE c \in Callers :
                call[c].pc = "idle" /\ \A d \in 1..(c - 1) : call[d].pc # "idle"

\* POST /webhook/omada, from the arrival of the request to the answer or to
\* the first suspension of the handler: authenticateWebhook, and on next()
\* the route's handler up to await discordSender.send(...). No regex of
\* the table is global, so translate leaves each lastIndex as it was.
PostWebhookOmada(r, headers, body) ==
    /\ req[r].pc = "none"
    /\ r > 1 => req[r - 1].pc # "none"
    /\ \E payloadValidation \in {validateOmadaPayload(sanitizeObject(body))},
          arrived \in {Arrived(headers, body)} :
         IF ~authenticateWebhook(headers, shardSecret)
         THEN /\ req' = [req EXCEPT ![r] =
                            [arrived EXCEPT !.answer = Answer(401, FALSE)]]
              /\ UNCHANGED <<call, dispatches, lastDone, now, impl,
                             lastSentTime, translatorVars, validatorVars>>
         ELSE IF ~payloadValidation.isValid
         THEN /\ req' = [req EXCEPT ![r] =
                            [arrived EXCEPT !.answer = Answer(400, FALSE)]]
              /\ UNCHANGED <<call, dispatches, lastDone, now, impl,
                             lastSentTime, translatorVars, validatorVars>>
         ELSE \E discordPayload \in {translate(payloadValidation.value,
             now)} :
              IF discordPayload.threw # ""
              THEN /\ req' = [req EXCEPT ![r] =
                                 [arrived EXCEPT !.translated = TRUE,
                                                 !.answer = Answer(500,
                                                     FALSE)]]
                   /\ UNCHANGED <<call, dispatches, lastDone, now, impl,
                                  lastSentTime, translatorVars,
                                  validatorVars>>
              ELSE /\ req' = [req EXCEPT ![r] =
                                 [arrived EXCEPT !.pc = "awaiting",
                                                 !.translated = TRUE,
                                                 !.sent = TRUE,
                                                 !.slot = FreeSlot]]
                   /\ \E message \in {Measured(discordPayload.payload)} :
                          Send(FreeSlot, message)
    /\ UNCHANGED <<shardSecret, vcall>>

\* (a handler that answers success whatever the awaited send ended in)
RespondsSuccessAlways(r) ==
    /\ req[r].pc = "awaiting"
    /\ call[req[r].slot].pc = "done"
    /\ req' = [req EXCEPT ![r] =
                  [@ EXCEPT !.pc = "answered", !.answer = Answer(200, TRUE)]]
    /\ Returns(req[r].slot)
    /\ UNCHANGED <<shardSecret, vcall>>

\* The awaited send has ended: res.json({success: true, ...}) when it
\* returned, the catch block's 500 when it threw.
Responds(r) ==
    /\ req[r].pc = "awaiting"
    /\ call[req[r].slot].pc = "done"
    /\ req' = [req EXCEPT ![r] =
                  [@ EXCEPT !.pc = "answered",
                            !.answer = IF call[req[r].slot].result.ok
                                       THEN Answer(200, TRUE)
                                       ELSE Answer(500, FALSE)]]
    /\ Returns(req[r].slot)
    /\ UNCHANGED <<shardSecret, vcall>>

\* The answer is written; the server keeps nothing of the request.
Closes(r) ==
    /\ req[r].pc = "answered"
    /\ req' = [req EXCEPT ![r] = [NoRequest EXCEPT !.pc = "closed"]]
    /\ UNCHANGED <<now, shardSecret, vcall, translatorVars, validatorVars,
                   senderVars>>

\* A client that posts its next request when the last one was answered.
PostInTurn(r, request) ==
    /\ \A q \in Callers : req[q].pc \in {"none", "closed"}
    /\ PostWebhookOmada(r, request.headers, request.body)

\* The server, with or without a configured secret. Its handler reads
\* sendResult.status, which the axios sender returns.
InitServer ==
    /\ now = StartTime
    /\ TranslatorIdle /\ ValidatorIdle /\ SenderIdle
    /\ shardSecret \in {Undefined, ConfiguredSecret}
    /\ vcall = NoCall
    /\ req = [r \in Callers |-> NoRequest]

\* requests posted one after the other
NextServer ==
    \/ \E r \in Callers, request \in WebhookRequests : PostInTurn(r, request)
    \/ \E c \in Callers : TimerFires(c)
    \/ \E c \in Callers : Resolves(c)
    \/ \E c \in Callers, failure \in NetworkFailures : Rejects(c, failure)
    \/ \E r \in Callers : Responds(r)
    \/ \E r \in Callers : Closes(r)
    \/ Tick
SpecServer == InitServer /\ [][NextServer]_vars

\* The server without a secret, posted events with many detail lines
\* among others.
DetailRequests ==
    { Request(NoHeader, LongTextBody), Request(NoHeader, OfflineBody),
      Request(NoHeader, NonObject(Undefined)) }

InitDetails == InitServer /\ shardSecret = Undefined
NextDetails ==
    \/ \E r \in Callers, request \in DetailRequests : PostInTurn(r, request)
    \/ \E c \in Callers : TimerFires(c)
    \/ \E c \in Callers : Resolves(c)
    \/ \E c \in Callers, failure \in NetworkFailures : Rejects(c, failure)
    \/ \E r \in Callers : Responds(r)
    \/ \E r \in Callers : Closes(r)
    \/ Tick
SpecDetails == InitDetails /\ [][NextDetails]_vars

---------------------------------------------------------------------------
(* Functions of the validator called on their own                          *)

\* secrets a caller may provide, and secrets the configuration may hold
ProvidedSecrets ==
    { Undefined, Null, Str(<<>>),
      Str(<<"s", "3", "c", "r", "e", "t", "-", "k", "e", "y">>), Str(<<"s",
            "3", "c", "r", "e", "t", "-", "k", "e", "z">>), Str(<<"S", "3",
            "c", "r", "e", "t", "-", "k", "e", "y">>),
      Str(<<"x", "3", "c", "r", "e", "t", "-", "k", "e", "y">>), Str(<<"s",
            "3", "c", "r", "e", "t">>), Str(<<"s", "3", "c", "r", "e", "t",
            "-", "k", "e", "y", "1">>),
      Str(<<"a", "b", "c", "d", "e", "f", "g", "h">>), Str(<<"0">>) }
ExpectedSecrets ==
    { Undefined, Null, Str(<<>>),
      Str(<<"s", "3", "c", "r", "e", "t", "-", "k", "e", "y">>), Str(<<"s",
            "3", "c", "r", "e", "t">>), Str(<<"a", "b", "c", "d", "e", "f",
            "g", "h">>), Str(<<"0">>) }

\* validator.validateShardSecret(providedSecret, expectedSecret) returns
ChecksSecret ==
    /\ vcall.fn = "validateShardSecret"
    /\ vcall.ret = NotReturned
    /\ vcall' = [vcall EXCEPT !.ret = Bool(validateShardSecret(vcall.a,
                                                               vcall.b))]
    /\ UNCHANGED <<now, shardSecret, req, translatorVars, validatorVars,
                   senderVars>>

\* the next call, with other arguments
AsksSecret(provided, expected) ==
    /\ vcall.fn = "validateShardSecret"
    /\ vcall.ret # NotReturned
    /\ vcall' = Call("validateShardSecret", provided, expected)
    /\ UNCHANGED <<now, shardSecret, req, translatorVars, validatorVars,
                   senderVars>>

InitSecret ==
    /\ now = StartTime
    /\ TranslatorIdle /\ ValidatorIdle /\ SenderIdle
    /\ shardSecret = Undefined
    /\ req = [r \in Callers |-> NoRequest]
    /\ \E provided \in ProvidedSecrets, expected \in ExpectedSecrets :
           vcall = Call("validateShardSecret", provided, expected)
NextSecret ==
    \/ ChecksSecret
    \/ \E provided \in ProvidedSecrets, expected \in ExpectedSecrets :
           AsksSecret(provided, expected)
SpecSecret == InitSecret /\ [][NextSecret]_vars


\* values that sanitizeObject is given, as a leaf of an object or on their
\* own: text with each of the five characters, with padding, with what
\* the removing variant looks for, and text of more than 1000 characters
SanitizeStrings ==
    { <<"<", "b", ">", "b", "o", "l", "d", "<", "/", "b", ">">>,
      <<"a", " ", "&", " ", "b">>,
      <<" ", " ", "p", "a", "d", "d", "e", "d", " ", " ">>,
      <<"s", "a", "y", " ", "\"", "h", "i", "\"">>,
      <<"i", "t", "'", "s">>,
      <<"j", "a", "v", "a", "s", "c", "r", "i", "p", "t", ":", "a", "l", "e",
        "r", "t", "(", "1", ")">>,
      <<"o", "n", "c", "l", "i", "c", "k", "=", "r", "u", "n">>,
      <<"p", "l", "a", "i", "n">>,
      <<>>,
      <<"<", "s", "c", "r", "i", "p", "t", ">", "a", "l", "e", "r", "t", "(",
        "\"", "x", "s", "s", "\"", ")", "<", "/", "s", "c", "r", "i", "p",
        "t", ">", "H", "e", "l", "l", "o">>,
      Repeat("a", 999) \o <<" ", "b">>,
      Repeat("a", 1500) }
SanitizeLeaves ==
    { Str(chars) : chars \in SanitizeStrings }
        \cup { Undefined, Null, Num(123), Bool(TRUE), Arr(<<>>),
               Arr(<< <<"<", "b", ">">>, <<" ", "o", "k", " ">> >>) }
SanitizeInputs ==
    { NonObject(v) : v \in SanitizeLeaves }
        \cup { DescriptionOnly(v) : v \in SanitizeLeaves }
        \cup { Payload(Str(<<"a", " ", "<", " ", "b">>), Arr(<< <<"x", " ",
                             ">", " ", "y">>, <<"p", "l", "a", "i",
                             "n">> >>), Num(5),
                       Str(<<" ", "H", "Q", " ">>), Undefined, Null,
                             Bool(FALSE)) }

SanitizeVariants == {"sanitizeObject", "sanitizeObjectEscaping"}

\* validator.sanitizeObject(obj) returns, in the variant that was called
Sanitizes ==
    /\ vcall.fn \in SanitizeVariants
    /\ vcall.ret.t = "pending"
    /\ vcall' = [vcall EXCEPT !.ret =
                    IF vcall.fn = "sanitizeObject"
                    THEN sanitizeObject(vcall.a)
                    ELSE sanitizeObjectEscaping(vcall.a)]
    /\ UNCHANGED <<now, shardSecret, req, translatorVars, validatorVars,
                   senderVars>>

\* the next call, of either variant
AsksSanitize(variant, obj) ==
    /\ vcall.fn \in SanitizeVariants
    /\ vcall.ret.t # "pending"
    /\ vcall' = Call(variant, obj, Undefined)
    /\ UNCHANGED <<now, shardSecret, req, translatorVars, validatorVars,
                   senderVars>>

InitSanitize ==
    /\ now = StartTime
    /\ TranslatorIdle /\ ValidatorIdle /\ SenderIdle
    /\ shardSecret = Undefined
    /\ req = [r \in Callers |-> NoRequest]
    /\ \E variant \in SanitizeVariants, obj \in SanitizeInputs :
           vcall = Call(variant, obj, Undefined)
NextSanitize ==
    \/ Sanitizes
    \/ \E variant \in SanitizeVariants, obj \in SanitizeInputs :
           AsksSanitize(variant, obj)
SpecSanitize == InitSanitize /\ [][NextSanitize]_vars
---------------------------------------------------------------------------
(* Properties of the translator                                            *)

Returned == out # Pending /\ out.threw = ""
Embed == out.payload.embeds[1]

\* text, lower-cased, holds one of the literals of rule j at some offset
RuleMatches(j, chars) ==
    \E k \in 1..Len(EVENT_TYPES_MAP[j].regex) :
        LET lit == EVENT_TYPES_MAP[j].regex[k]
        IN \E off \in 0..(Len(chars) - Len(lit)) :
               \A i \in 1..Len(lit) : ToLower(chars[off + i]) = lit[i]

\* the category the rule table assigns to a text: first matching rule wins
CategoryOfText(chars) ==
    IF \E j \in 1..Len(EVENT_TYPES_MAP) : RuleMatches(j, chars)
    THEN EVENT_TYPES_MAP[CHOOSE j \in 1..Len(EVENT_TYPES_MAP) :
                            /\ RuleMatches(j, chars)
                            /\ \A h \in 1..(j - 1) : ~RuleMatches(h,
                                chars)].type
    ELSE "DEFAULT"

\* the category of the rule that translate found (DEFAULT when it found none)
DetectedCategory(type) ==
    CASE type.t = "object" -> EVENT_TYPES_MAP[type.rule].type
      [] type.t = "string" -> type.name
      [] OTHER -> "DEFAULT"

\* C1: events with the same resolved body get the same category, and the
\* category is the one the rule table assigns to the resolved body (an event
\* that carries only a description is classified by that description).
C1_ClassifiedByResolvedBody ==
    Returned =>
        /\ DetectedCategory(out.type) = CategoryOfText(Embed.description.s)
        /\ (prev.any /\ prev.message = Embed.description)
               => DetectedCategory(prev.type) = DetectedCategory(out.type)

\* C2: the message carries the content "@here" exactly when the category
\* detected for the event is ATTACK or INTRUSION.
C2_MentionIffAttackOrIntrusion ==
    Returned =>
        ((out.payload.content = Str(<<"@", "h", "e", "r", "e">>))
            <=> DetectedCategory(out.type) \in {"ATTACK", "INTRUSION"})

\* C3: for every category the rule table returns, the title of the message
\* is that category's own entry of EVENT_TITLES, never the DEFAULT fallback.
C3_TitleIsCategoryEntry ==
    (Returned /\ out.type.t = "object") =>
        /\ DetectedCategory(out.type) \in DOMAIN EVENT_TITLES
        /\ Embed.title = EVENT_TITLES[DetectedCategory(out.type)]

\* C4: the event is given the category of the first rule, in table order,
\* whose pattern occurs case-insensitively in the scanned text, DEFAULT when
\* none does: a text holding both "test" and "client connected" yields TEST.
C4_FirstMatchingRuleDecides ==
    Returned =>
        LET cat == CategoryOfText(ToStringJS(event.text))
        IN /\ Embed.title = TitleOf(TypeName(cat))
           /\ Embed.color = getEmbedColor(TypeName(cat))
           /\ (event.text = Arr(<< <<"c", "l", "i", "e", "n", "t", " ", "c",
                                     "o", "n", "n", "e", "c", "t", "e",
                                     "d">>, <<"T", "e", "s", "t">> >>)
                  => Embed.title = EVENT_TITLES.TEST)

\* C5: the body is the description when that is a non-empty string, else the
\* detail lines joined by one space when the join is non-empty, else
\* "No message provided"; an event with neither gets that body and the
\* DEFAULT title and colour, without a mention.
C5_BodyResolution ==
    (Returned /\ event.text.t \in {"undefined", "array"}) =>
        LET d == event.description
            hasDescription == d.t = "string" /\ Len(d.s) > 0
            joined == IF event.text.t = "array"
                      THEN Join(event.text.a, <<" ">>) ELSE <<>>
        IN /\ hasDescription => Embed.description = d
           /\ (~hasDescription /\ Len(joined) > 0)
                  => Embed.description = Str(joined)
           /\ (~hasDescription /\ Len(joined) = 0)
                  => Embed.description = Str(<<"N", "o", " ", "m", "e", "s",
                                               "s", "a", "g", "e", " ", "p",
                                               "r", "o", "v", "i", "d", "e",
                                               "d">>)
           /\ (~hasDescription /\ event.text.t = "undefined")
                  => /\ Embed.description = Str(<<"N", "o", " ", "m", "e",
                                                  "s", "s", "a", "g", "e",
                                                  " ", "p", "r", "o", "v",
                                                  "i", "d", "e", "d">>)
                     /\ Embed.title = EVENT_TITLES.DEFAULT
                     /\ Embed.color = ALERT_COLORS_MAPPING.DEFAULT
                     /\ out.payload.content = Undefined

C5_Witness ==
    /\ Returned
    /\ event.description = Undefined
    /\ event.text = Arr(<< <<"D", "e", "v", "i", "c", "e", " ", "O", "f",
                             "f", "l", "i", "n", "e">>, <<"A", "P", "-", "1",
                             " ", "d", "i", "s", "c", "o", "n", "n", "e",
                             "c", "t", "e", "d">> >>)
    /\ Embed.description = Str(<<"D", "e", "v", "i", "c", "e", " ", "O", "f",
                                 "f", "l", "i", "n", "e", " ", "A", "P", "-",
                                 "1", " ", "d", "i", "s", "c", "o", "n", "n",
                                 "e", "c", "t", "e", "d">>)

NonEmptyString(v) == v.t = "string" /\ Len(v.s) > 0

\* the fields of the embed are those due to a site value, a controller
\* value and the detail lines: which are present, their order, their content
FieldsAsClaimed(siteValue, controllerValue, text) ==
    LET f == Embed.fields
        Rank(nm) == CASE nm = "Site" -> 1 [] nm = "Controller" -> 2
                      [] nm = "Details" -> 3 [] OTHER -> 0
    IN /\ (\E i \in 1..Len(f) : f[i].name = "Site")
              <=> NonEmptyString(siteValue)
       /\ (\E i \in 1..Len(f) : f[i].name = "Controller")
              <=> NonEmptyString(controllerValue)
       /\ (\E i \in 1..Len(f) : f[i].name = "Details")
              <=> (text.t = "array" /\ Len(text.a) > 0)
       /\ \A i \in 1..Len(f) :
              /\ Rank(f[i].name) > 0
              /\ \A j \in (i + 1)..Len(f) : Rank(f[i].name) < Rank(f[j].name)
              /\ f[i].name = "Site"
                     => f[i].value = siteValue /\ f[i].inline
              /\ f[i].name = "Controller"
                     => f[i].value = controllerValue /\ f[i].inline
              /\ f[i].name = "Details"
                     => /\ f[i].value = Str(Join(text.a, << "\n" >>))
                        /\ ~f[i].inline

\* C6 as stated: Site iff site is non-empty, Controller iff controllerId
\* is non-empty, Details iff the lines are a non-empty sequence, in that
\* order and nothing else.
C6_FieldsFromSiteAndControllerId ==
    Returned => FieldsAsClaimed(event.site, event.controllerId, event.text)

\* C6 amended: the keys read are Site and Controller; the keys site
\* and controllerId are not read. Site iff Site is non-empty, Controller
\* iff Controller is non-empty, Details (not inline, newline-joined) iff
\* the lines are a non-empty sequence, in that order and nothing else.
C6_FieldsFromSiteAndController ==
    Returned => FieldsAsClaimed(event.Site, event.Controller, event.text)

C6_Witness ==
    /\ Returned
    /\ event.description = Str(<<"D", "D", "o", "S", " ", "a", "t", "t", "a",
                                 "c", "k", " ", "d", "e", "t", "e", "c", "t",
                                 "e", "d">>)
    /\ event.Site = Str(<<"H", "Q">>) /\ event.Controller = Str(<<"C", "1">>)
    /\ event.text = Undefined
    /\ Embed.fields = << Field("Site", Str(<<"H", "Q">>), TRUE),
                         Field("Controller", Str(<<"C", "1">>), TRUE) >>

---------------------------------------------------------------------------
(* Properties of the sender                                                *)

InFlight(c) == call[c].pc \in {"waiting", "posting", "done"}

\* C7: a send whose payload violates a constraint of validatePayload makes
\* no network call and ends in an error, whichever DiscordSender runs; for
\* 26 fields in one embed the error names the 25-field limit.
C7_InvalidNeverDispatched ==
    \A c \in Callers :
        (InFlight(c) /\ ~validatePayload(call[c].msg).ok) =>
            /\ ~call[c].posted
            /\ call[c].pc = "done"
            /\ ~call[c].result.ok
            /\ call[c].msg = TooManyFields
                   => call[c].result.detail = "can have maximum 25 fields"

\* the payload has the shape of a Discord message: an object, its embeds an
\* array of objects (or absent), their fields arrays (or absent)
WellShaped(payload) ==
    /\ payload.kind = "object"
    /\ payload.embedsKind \in {"array", "absent"}
    /\ \A i \in 1..Len(payload.embeds) :
           /\ payload.embeds[i].kind = "object"
           /\ payload.embeds[i].fieldsKind \in {"array", "absent"}

EmbedsOf(payload) ==
    IF payload.embedsKind = "array" THEN payload.embeds ELSE <<>>
FieldsOf(embed) == IF embed.fieldsKind = "array" THEN embed.fields ELSE <<>>

RECURSIVE LengthOfFirst(_, _)
LengthOfFirst(fields, k) ==
    IF k = 0 THEN 0
    ELSE LengthOfFirst(fields, k - 1) + fields[k].name + fields[k].value

Aggregate(embed) ==
    embed.title + embed.description + embed.footer + embed.author
    + LengthOfFirst(FieldsOf(embed), Len(FieldsOf(embed)))

WithinLimits(payload) ==
    /\ payload.content > 0 \/ Len(EmbedsOf(payload)) >= 1
    /\ payload.content <= 2000
    /\ Len(EmbedsOf(payload)) <= 10
    /\ \A i \in 1..Len(EmbedsOf(payload)) :
           LET embed == EmbedsOf(payload)[i]
           IN /\ Len(FieldsOf(embed)) <= 25
              /\ \A j \in 1..Len(FieldsOf(embed)) :
                     /\ FieldsOf(embed)[j].name \in 1..256
                     /\ FieldsOf(embed)[j].value \in 1..1024
              /\ embed.title <= 256
              /\ embed.description <= 4096
              /\ embed.footer <= 2048
              /\ embed.author <= 256
              /\ Aggregate(embed) <= 6000
    /\ payload.username <= 80

\* C8: validatePayload accepts a message exactly when it has content or an
\* embed and every limit holds, each limit inclusive: content 2000, embeds
\* 10, fields 25, field name 1..256, field value 1..1024, title 256,
\* description 4096, footer text 2048, author name 256, username 80,
\* aggregate of an embed 6000.
C8_AcceptsIffWithinLimits ==
    (verdict # NotValidated /\ WellShaped(candidate)) =>
        (verdict.ok <=> WithinLimits(candidate))

C8_Witness ==
    /\ verdict = Accepted
    /\ candidate.content = 2000
    /\ candidate.username = 80
    /\ Len(candidate.embeds) = 1
    /\ candidate.embeds[1].description = 4096
    /\ Aggregate(candidate.embeds[1]) = 6000

\* C9: the check-wait-send-update sequences of concurrent send calls do not
\* interleave (at most one call is between its check and its update), so no
\* two network calls start less than rateLimitDelay apart.
C9_SerializedAccess ==
    /\ Cardinality({c \in Callers :
                        call[c].pc \in {"waiting", "posting"}}) <= 1
    /\ Len(dispatches) = 2 => dispatches[2] - dispatches[1] >= RateLimitDelay

\* C10: with sends issued one after the other, a send waits exactly
\* rateLimitDelay - (now - lastSentTime) when less than rateLimitDelay has
\* passed since lastSentTime and not at all otherwise, and the network call
\* of a send that follows a successful one starts no earlier than
\* rateLimitDelay after that one completed.
C10_SequentialSpacing ==
    \A c \in Callers :
        call[c].pc \in {"waiting", "posting"} =>
            LET elapsed == call[c].checkedAt - lastSentTime
            IN /\ elapsed < RateLimitDelay
                      => call[c].delay = RateLimitDelay - elapsed
               /\ elapsed >= RateLimitDelay => call[c].delay = 0
               /\ call[c].pc = "posting"
                      => /\ call[c].postedAt
                                >= call[c].checkedAt + call[c].delay
                         /\ call[c].delay = 0
                                => call[c].postedAt = call[c].checkedAt
                         /\ (lastDone.any /\ lastDone.ok)
                                => call[c].postedAt
                                       >= lastDone.at + RateLimitDelay

C10_Witness ==
    \E c \in Callers :
        /\ call[c].pc = "posting"
        /\ call[c].delay = 1
        /\ lastDone.any /\ lastDone.ok
        /\ call[c].postedAt = lastDone.at + RateLimitDelay

---------------------------------------------------------------------------
(* Properties of the sender: spacing after failures, lastSentTime, errors   *)

\* the send whose network call is the latest to have started, while that
\* call is still running, next to the start of the network call before it
SecondCallRunning(c) == call[c].pc = "posting" /\ Len(dispatches) = 2

\* C11 as stated: with sends issued one after the other, two consecutive
\* network calls start at least rateLimitDelay apart, whether the earlier
\* one succeeded or failed.
C11_SpacedWhateverTheOutcome ==
    \A c \in Callers :
        SecondCallRunning(c) =>
            dispatches[2] - dispatches[1] >= RateLimitDelay

\* C11 amended: with sends issued one after the other, two consecutive
\* network calls start at least rateLimitDelay apart when the earlier one
\* succeeded; a failed network call leaves lastSentTime as it was, so the
\* call after it is held back only by the last success before it.
C11_SpacedAfterSuccess ==
    \A c \in Callers :
        SecondCallRunning(c) =>
            /\ lastDone.net = "ok"
                   => dispatches[2] - dispatches[1] >= RateLimitDelay
            /\ dispatches[2] - lastSentTime >= RateLimitDelay

C11_Witness ==
    \E c \in Callers :
        /\ SecondCallRunning(c)
        /\ lastDone.net = "ok"
        /\ call[c].delay > 0
        /\ dispatches[2] - dispatches[1] = RateLimitDelay

\* a step in which the send of c ends, after a network call or without one
EndsNow(c) == call[c].pc # "done" /\ call'[c].pc = "done"

\* C12: lastSentTime changes only in the step in which a network call
\* completes successfully, and then becomes the clock value of that moment;
\* a send that ends in an error (thrown by validation, by a builder or by
\* the network call) leaves it as it was, and so does every other step
\* (entering send or testConnection, the timer of handleRateLimit firing).
C12_LastSentTimeFrame ==
    [][ /\ lastSentTime' # lastSentTime
            => \E c \in Callers :
                   /\ call[c].pc = "posting"
                   /\ EndsNow(c)
                   /\ call'[c].result.ok
        /\ \A c \in Callers :
               (EndsNow(c) /\ call'[c].result.ok)
                   => lastSentTime' = now /\ call[c].pc = "posting"
        /\ \A c \in Callers :
               (EndsNow(c) /\ ~call'[c].result.ok)
                   => lastSentTime' = lastSentTime
      ]_vars

C12_Witness ==
    \E c \in Callers :
        /\ call[c].pc = "done"
        /\ call[c].posted
        /\ ~call[c].result.ok
        /\ lastDone.net = "failed"
        /\ lastSentTime > 0
        /\ lastSentTime < lastDone.at

\* the send of c has ended because validatePayload threw (only the axios
\* variant calls it, and it does so before any network call)
RejectedByValidation(c) ==
    /\ impl = "axios"
    /\ call[c].pc = "done"
    /\ ~call[c].posted
    /\ ~validatePayload(call[c].msg).ok

\* C13: a message rejected by validatePayload inside send is not reported
\* to the caller with the generic 'Failed to send webhook' classification.
C13_ValidationErrorKind ==
    \A c \in Callers :
        RejectedByValidation(c) =>
            call[c].result.error # "Failed to send webhook"

\* the step in which the network call of c fails with failure
FailsWith(c, failure) == call[c].pc = "posting" /\ Rejects(c, failure)

\* the six kinds as the taxonomy has them, by the failure alone
KindByFailure(failure) ==
    CASE failure.status = 429 -> "Rate limited"
      [] failure.status = 404 -> "Discord webhook not found"
      [] failure.status >= 500 -> "Discord server error"
      [] failure.status = 0 /\ failure.code = "ECONNABORTED" ->
             "Request timeout"
      [] failure.status = 0 /\ failure.code \in {"ECONNREFUSED", "ENOTFOUND"}
             -> "Network error"
      [] OTHER -> "Failed to send webhook"

\* C14 as stated: a failed network call is signalled as the kind its
\* failure alone determines (429 rate limit, 404 not found, 5xx server
\* error, ECONNABORTED timeout, ECONNREFUSED/ENOTFOUND network error, all
\* else generic), never as a success.
C14_KindByFailureAlone ==
    [][ \A c \in Callers, failure \in AllFailures :
            FailsWith(c, failure) =>
                /\ ~call'[c].result.ok
                /\ call'[c].result.error = KindByFailure(failure)
      ]_vars

\* the kinds each catch block gives
KindByVariant(variant, failure) ==
    IF variant = "axios"
    THEN CASE failure.status = 429 -> "Rate limited"
           [] failure.status = 400 -> "Invalid payload"
           [] failure.status = 404 -> "Discord webhook not found"
           [] failure.status >= 500 -> "Discord server error"
           [] failure.status \notin {0, 429, 400, 404}
              /\ failure.status < 500 -> "Discord API error"
           [] failure.status = 0 /\ failure.code = "ECONNABORTED" ->
                  "Request timeout"
           [] failure.status = 0
              /\ failure.code \in {"ECONNREFUSED", "ENOTFOUND"} ->
                  "Network error"
           [] OTHER -> "Failed to send webhook"
    ELSE CASE failure.code = "10015" -> "Discord webhook not found"
           [] failure.code = "50035" -> "Invalid payload"
           [] failure.code \notin {"10015", "50035"}
              /\ failure.status = 429 -> "Rate limited"
           [] failure.code \notin {"10015", "50035"}
              /\ failure.status >= 500 -> "Discord server error"
           [] OTHER -> "Failed to send webhook"

\* C14 amended: a failed network call is signalled as exactly one kind,
\* never as a success, and the kind is a function of the failure and of the
\* sender in use. axios: a response with status 429 rate limit, 400
\* invalid payload, 404 not found, 5xx server error, any other status the
\* Discord API error; without a response ECONNABORTED timeout,
\* ECONNREFUSED/ENOTFOUND network error, all else generic. discord.js: code
\* 10015 not found, code 50035 invalid payload, status 429 rate limit, 5xx
\* server error, all else (transport failures too) generic.
C14_KindByFailureAndVariant ==
    [][ \A c \in Callers, failure \in AllFailures :
            FailsWith(c, failure) =>
                /\ ~call'[c].result.ok
                /\ call'[c].result.error = KindByVariant(impl, failure)
      ]_vars

C14_Witness ==
    \E c \in Callers :
        /\ impl = "axios"
        /\ call[c].pc = "done"
        /\ call[c].posted
        /\ call[c].result.error = "Invalid payload"

\* C15: a call of send, and so a call of testConnection, starts at most one
\* network call; when that call has ended the send ends too, with the
\* success or the error of the call, and a send that has ended starts
\* nothing more.
C15_AtMostOneNetworkCall ==
    [][ \A c \in Callers :
            /\ (call[c].pc # "posting" /\ call'[c].pc = "posting")
                   => /\ ~call[c].posted
                      /\ call[c].pc \in {"idle", "waiting"}
            /\ (call[c].pc = "posting" /\ call'[c].pc # "posting")
                   => /\ EndsNow(c)
                      /\ call'[c].posted
                      /\ call'[c].result.ok <=> lastDone'.net = "ok"
            /\ call[c].pc \in {"done", "returned"}
                   => call'[c].pc \in {"done", "returned"}
      ]_vars

C15_Witness ==
    \E c \in Callers :
        /\ call[c].msg = TestPayload
        /\ call[c].pc = "done"
        /\ call[c].posted
        /\ ~TestReport(call[c].result).success
        /\ Len(dispatches) = 1

---------------------------------------------------------------------------
(* Properties of validatePayload: which violation is reported, the budget   *)

\* whether the payload as a whole violates the constraint an error names
ViolatesTop(payload, e) ==
    CASE e = "Payload must have either content or embeds" ->
             payload.content = 0 /\ Len(EmbedsOf(payload)) = 0
      [] e = "Content must be 2000 characters or less" ->
             payload.content > 2000
      [] e = "Maximum 10 embeds allowed" -> Len(EmbedsOf(payload)) > 10
      [] e = "Username must be 80 characters or less" ->
             payload.username > 80
      [] OTHER -> FALSE

BadName(field) == field.name \notin 1..256
BadValue(field) == field.value \notin 1..1024

\* whether an embed violates the constraint an error names
ViolatesEmbed(embed, e) ==
    CASE e = "can have maximum 25 fields" -> Len(FieldsOf(embed)) > 25
      [] e = "name must be 1-256 characters" ->
             \E j \in 1..Len(FieldsOf(embed)) : BadName(FieldsOf(embed)[j])
      [] e = "value must be 1-1024 characters" ->
             \E j \in 1..Len(FieldsOf(embed)) : BadValue(FieldsOf(embed)[j])
      [] e = "a field" ->
             \E j \in 1..Len(FieldsOf(embed)) :
                 BadName(FieldsOf(embed)[j]) \/ BadValue(FieldsOf(embed)[j])
      [] e = "title must be 256 characters or less" -> embed.title > 256
      [] e = "description must be 4096 characters or less" ->
             embed.description > 4096
      [] e = "footer text must be 2048 characters or less" ->
             embed.footer > 2048
      [] e = "author name must be 256 characters or less" ->
             embed.author > 256
      [] e = "total length must be 6000 characters or less" ->
             Aggregate(embed) > 6000
      [] OTHER -> FALSE

Violates(payload, e) ==
    \/ ViolatesTop(payload, e)
    \/ \E i \in 1..Len(EmbedsOf(payload)) :
           ViolatesEmbed(EmbedsOf(payload)[i], e)

\* the first entry of order that passes Test
FirstOf(order, Test(_)) ==
    order[CHOOSE k \in 1..Len(order) :
              /\ Test(order[k])
              /\ \A h \in 1..(k - 1) : ~Test(order[h])]

ListedOrder ==
    << "Payload must have either content or embeds",
       "Content must be 2000 characters or less",
       "Maximum 10 embeds allowed",
       "can have maximum 25 fields",
       "name must be 1-256 characters",
       "value must be 1-1024 characters",
       "title must be 256 characters or less",
       "description must be 4096 characters or less",
       "footer text must be 2048 characters or less",
       "author name must be 256 characters or less",
       "Username must be 80 characters or less",
       "total length must be 6000 characters or less" >>

RejectedWellShaped ==
    verdict # NotValidated /\ WellShaped(candidate) /\ ~verdict.ok

\* C16 as stated: of the constraints a message violates, the error names the
\* one that comes first in the order presence, content length, embed
\* count, fields per embed, field name, field value, title, description,
\* footer text, author name, username, aggregate budget.
C16_FirstInListedOrder ==
    RejectedWellShaped =>
        verdict.error = FirstOf(ListedOrder, LAMBDA e : Violates(candidate,
            e))

BeforeEmbeds ==
    << "Payload must have either content or embeds",
       "Content must be 2000 characters or less",
       "Maximum 10 embeds allowed" >>

WithinEmbed ==
    << "title must be 256 characters or less",
       "description must be 4096 characters or less",
       "can have maximum 25 fields",
       "a field",
       "footer text must be 2048 characters or less",
       "author name must be 256 characters or less",
       "total length must be 6000 characters or less" >>

AnyOf(order, Test(_)) == \E k \in 1..Len(order) : Test(order[k])

\* what is reported for an embed that violates something: the first of
\* WithinEmbed it violates; for a field, the first bad field, its name
\* before its value
ReportedOfEmbed(embed, index) ==
    LET e == FirstOf(WithinEmbed, LAMBDA x : ViolatesEmbed(embed, x))
        fields == FieldsOf(embed)
        j == CHOOSE j \in 1..Len(fields) :
                 /\ BadName(fields[j]) \/ BadValue(fields[j])
                 /\ \A h \in 1..(j - 1) :
                        ~(BadName(fields[h]) \/ BadValue(fields[h]))
    IN IF e # "a field" THEN EmbedError(index, e)
       ELSE IF BadName(fields[j])
       THEN FieldError(index, j - 1, "name must be 1-256 characters")
       ELSE FieldError(index, j - 1, "value must be 1-1024 characters")

ReportedInCheckOrder(payload) ==
    LET embeds == EmbedsOf(payload)
        Bad(i) == AnyOf(WithinEmbed, LAMBDA x : ViolatesEmbed(embeds[i], x))
    IN IF AnyOf(BeforeEmbeds, LAMBDA x : ViolatesTop(payload, x))
       THEN Rejected(FirstOf(BeforeEmbeds,
                             LAMBDA x : ViolatesTop(payload, x)))
       ELSE IF \E i \in 1..Len(embeds) : Bad(i)
       THEN LET i == CHOOSE i \in 1..Len(embeds) :
                         Bad(i) /\ \A h \in 1..(i - 1) : ~Bad(h)
            IN ReportedOfEmbed(embeds[i], i - 1)
       ELSE Rejected("Username must be 80 characters or less")

\* C16 amended: the error names the first violated constraint in the order
\* presence, content length, embed count; then, embed by embed, title,
\* description, fields per embed, the fields one by one (name before
\* value), footer text, author name, aggregate budget; then username. It
\* carries the index of the embed and of the field.
C16_FirstInCheckOrder ==
    RejectedWellShaped => verdict = ReportedInCheckOrder(candidate)

C16_Witness ==
    /\ RejectedWellShaped
    /\ Len(candidate.embeds) = 1
    /\ Len(candidate.embeds[1].fields) = 26
    /\ candidate.username = 81
    /\ verdict = EmbedError(0, "title must be 256 characters or less")

\* every limit of the payload other than the aggregate budget holds
EachLimitHolds(payload) ==
    /\ ~AnyOf(BeforeEmbeds, LAMBDA x : ViolatesTop(payload, x))
    /\ payload.username <= 80
    /\ \A i \in 1..Len(EmbedsOf(payload)), k \in 1..Len(WithinEmbed) :
           WithinEmbed[k] # "total length must be 6000 characters or less"
               => ~ViolatesEmbed(EmbedsOf(payload)[i], WithinEmbed[k])

\* C17: the aggregate of an embed is the plain sum of the lengths of title,
\* description, footer text, author name and every field's name and value,
\* absent parts counting 0; with every other limit held, the message is
\* accepted when each embed's sum is at most 6000 (6000 itself included)
\* and rejected for the total length of the first embed whose sum is 6001
\* or more.
C17_AggregateBudget ==
    (verdict # NotValidated /\ WellShaped(candidate)) =>
        /\ \A i \in 1..Len(EmbedsOf(candidate)) :
               calculateEmbedLength(EmbedsOf(candidate)[i])
                   = Aggregate(EmbedsOf(candidate)[i])
        /\ EachLimitHolds(candidate) =>
               /\ verdict.ok
                      <=> \A i \in 1..Len(EmbedsOf(candidate)) :
                              Aggregate(EmbedsOf(candidate)[i]) <= 6000
               /\ ~verdict.ok
                      => /\ verdict.error
                                = "total length must be 6000 characters or less"
                         /\ Aggregate(candidate.embeds[verdict.embed + 1])
                                >= 6001

C17_Witness ==
    /\ verdict = EmbedError(1, "total length must be 6000 characters or less")
    /\ EachLimitHolds(candidate)
    /\ Aggregate(candidate.embeds[1]) = 2
    /\ Aggregate(candidate.embeds[2]) = 6001

---------------------------------------------------------------------------
(* Properties of translate: what it throws, the timestamp                   *)

Finished == out # Pending

\* C18: translate throws 'Invalid Omada payload' exactly when its argument
\* is not an object-shaped record: for null, for every primitive and for a
\* top-level array it throws it, for a plain object never.
C18_InvalidInputError ==
    Finished => (out.threw = "Invalid Omada payload" <=> event.t # "object")

\* C19: for an object-shaped event translate does not throw; a timestamp
\* the event carries decides the outbound timestamp (a number, 0 included,
\* gives the ISO-8601 text of that instant), and without one the outbound
\* timestamp is the instant of the call.
C19_TimestampNeverThrows ==
    (Finished /\ event.t = "object") =>
        /\ out.threw = ""
        /\ event.timestamp.t = "number"
               => Embed.timestamp = Iso(event.timestamp.n)
        /\ event.timestamp = Undefined => Embed.timestamp = Iso(now)


\* the request carries the configured secret, character for character, in
\* the first of its three headers that is not empty
CarriesSecret(q) ==
    LET provided == ProvidedSecret(q.headers)
    IN provided.t = "string" /\ provided.s = shardSecret.s

\* the request passed authentication, in so far as a secret is configured
Authenticated(q) == Truthy(shardSecret) => CarriesSecret(q)

\* the sanitized body of the request passes the schema
SchemaValid(q) == validateOmadaPayload(sanitizeObject(q.body)).isValid

\* the step is the arrival of request r
Arrives(r) == req[r].pc = "none" /\ req'[r].pc # "none"

\* the step neither enters send nor starts a network call
NothingSent ==
    UNCHANGED <<call, dispatches, lastSentTime, lastDone>>

\* C20: in the webhook pipeline translate, and with it send, is invoked
\* only for a request that passed authentication (when a secret is
\* configured) and whose sanitized body passed the schema check; a request
\* that fails authentication is answered 401, one that passes it and fails
\* the schema is answered 400, and for neither is translate invoked, send
\* entered or a network call started.
C20_OnlyAfterBothChecks ==
    [][\A r \in Callers :
          Arrives(r) =>
              LET q == req'[r]
              IN /\ (q.translated \/ q.sent) =>
                     Authenticated(q) /\ SchemaValid(q)
                 /\ q.sent => q.translated
                 /\ ~Authenticated(q) =>
                        /\ q.answer = Answer(401, FALSE)
                        /\ ~q.translated /\ ~q.sent /\ NothingSent
                 /\ Authenticated(q) /\ ~SchemaValid(q) =>
                        /\ q.answer = Answer(400, FALSE)
                        /\ ~q.translated /\ ~q.sent /\ NothingSent]_vars

\* with a secret configured, and an earlier request delivered, a request
\* whose secret is off by one character has been answered 401 without
\* translate or send
C20_Witness ==
    /\ Truthy(shardSecret)
    /\ lastDone.ok
    /\ \E r \in Callers :
           /\ req[r].pc = "answered"
           /\ req[r].headers.xShardSecret = Str(<<"s", "3", "c", "r", "e",
                                                  "t", "-", "k", "e", "z">>)
           /\ SchemaValid(req[r])
           /\ req[r].answer.status = 401
           /\ ~req[r].translated /\ ~req[r].sent

\* a secret is configured: expected is a string that is not empty
Configured(expected) == expected.t = "string" /\ expected.s # <<>>

\* provided is a string with the characters of expected, one by one
SameString(provided, expected) ==
    /\ provided.t = "string" /\ expected.t = "string"
    /\ Len(provided.s) = Len(expected.s)
    /\ \A i \in 1..Len(expected.s) : provided.s[i] = expected.s[i]

SecretChecked ==
    vcall.fn = "validateShardSecret" /\ vcall.ret # NotReturned

\* C21: validateShardSecret(provided, expected) returns true iff no secret
\* is configured (expected is null, undefined or empty) or provided is a
\* string equal to expected character for character; so, with a secret
\* configured, it returns false for a missing provided value and for one
\* that differs in length or in any character.
C21_TrueIffOpenOrEqual ==
    SecretChecked =>
        (vcall.ret = Bool(TRUE)
            <=> (~Configured(vcall.b) \/ SameString(vcall.a, vcall.b)))

\* a provided secret of the right length that differs in its last character
\* has been refused
C21_Witness ==
    /\ SecretChecked
    /\ vcall.b = Str(<<"s", "3", "c", "r", "e", "t", "-", "k", "e", "y">>)
    /\ vcall.a = Str(<<"s", "3", "c", "r", "e", "t", "-", "k", "e", "z">>)
    /\ vcall.ret = Bool(FALSE)

\* what the handler hands to translate for the request, and what translate
\* makes of it at the instant the request is handled
Validated(q) == validateOmadaPayload(sanitizeObject(q.body)).value
TranslationOf(q) == translate(Validated(q), now)

\* translate signalled the invalid-input error for the request
InvalidInput(q) ==
    q.translated /\ TranslationOf(q).threw = "Invalid Omada payload"

\* the delivery of the request's message signalled a validation error
DeliveryInvalid(q) ==
    /\ q.sent
    /\ ~validatePayload(Measured(TranslationOf(q).payload)).ok

\* C22: a webhook request whose translation signals the invalid-input
\* error, or whose delivery signals a validation error, is answered with a
\* 400-class response, never with a 500-class one.
C22_BadInputAnswered400 ==
    \A r \in Callers :
        (req[r].pc = "answered"
            /\ (InvalidInput(req[r]) \/ DeliveryInvalid(req[r])))
        => req[r].answer.status \in 400..499

\* a call of testConnection has ended
TestEnded(c) == call[c].pc = "returned" /\ call[c].msg = TestPayload

\* C23: testConnection never throws: whatever the send of its fixed test
\* message ended in, it returns an object, with success true iff that send
\* succeeded, and with success false and the failure's message otherwise;
\* a test that succeeded went through a network call like any send.
C23_TestAlwaysReports ==
    \A c \in Callers :
        TestEnded(c) =>
            /\ call[c].report.outcome = "returned"
            /\ call[c].report.success <=> call[c].result.ok
            /\ call[c].report.success => call[c].posted
            /\ ~call[c].result.ok =>
                   /\ call[c].report.message
                          = "Discord webhook connection failed"
                   /\ call[c].report.detail = call[c].result.error

\* a test whose network call timed out has returned its report, after an
\* earlier test succeeded
C23_Witness ==
    /\ lastSentTime > 0
    /\ \E c \in Callers :
           /\ TestEnded(c)
           /\ call[c].report = Report("returned", FALSE,
                                      "Discord webhook connection failed",
                                      "Request timeout")

\* the keys of the model's objects
LeafKeys == {"description", "text", "timestamp", "Site", "Controller",
             "site", "controllerId"}

\* cleaned is what the claim says of the string given: its five characters
\* escaped, none deleted, trimmed, and cut to 1000 characters at most
EscapedTrimmedCut(given, cleaned) ==
    LET escaped == Trim(EscapeHtml(given))
    IN /\ Len(cleaned) <= 1000
       /\ cleaned = Trim(cleaned)
       /\ IF Len(escaped) <= 1000 THEN cleaned = escaped
          ELSE /\ Len(cleaned) <= Len(escaped)
               /\ cleaned = SubSeq(escaped, 1, Len(cleaned))

\* cleaned is the value given, sanitized as the claim says
SanitizedValue(given, cleaned) ==
    /\ cleaned.t = given.t
    /\ CASE given.t = "string" -> EscapedTrimmedCut(given.s, cleaned.s)
         [] given.t = "array" ->
                /\ Len(cleaned.a) = Len(given.a)
                /\ \A i \in 1..Len(given.a) :
                       EscapedTrimmedCut(given.a[i], cleaned.a[i])
         [] OTHER -> /\ cleaned.s = given.s
                     /\ cleaned.a = given.a
                     /\ cleaned.n = given.n

SanitizeReturned ==
    vcall.fn \in SanitizeVariants /\ vcall.ret.t # "pending"

\* C24: sanitizeObject returns a value of the shape of its input, every
\* string leaf of it HTML-escaped (not deleted), trimmed and at most 1000
\* characters long, every other leaf unchanged.
C24_LeavesEscapedTrimmedCut ==
    SanitizeReturned =>
        /\ SanitizedValue(vcall.a, vcall.ret)
        /\ \A k \in LeafKeys : SanitizedValue(vcall.a[k], vcall.ret[k])


\* C25: lastSentTime never decreases, whatever the order and the overlap of
\* the send and testConnection calls, the clock never going backwards.
C25_LastSentTimeMonotonic == [][lastSentTime' >= lastSentTime]_vars

\* a send and a test overlapped, and both have stamped lastSentTime
C25_Witness ==
    \E c, d \in Callers :
        /\ call[c].pc = "done" /\ call[c].result.ok
        /\ call[c].msg = TestPayload
        /\ call[d].pc = "done" /\ call[d].result.ok
        /\ call[d].msg = ValidMessage
        /\ lastSentTime > StartTime

\* a call of translate returns or throws in this step
TranslateEnds == out = Pending /\ out' # Pending

\* C26: translate is deterministic and free of side effects: what a call
\* returns for an event at an instant is what the first call of the process
\* would return for it, whatever was translated before (the rule table
\* keeps nothing from one call to the next), and the call changes neither
\* the event nor lastSentTime.
C26_TranslatePure ==
    [][TranslateEnds =>
          /\ out' = translateFrom(event, now, NeverTested).out
          /\ lastIndex' = lastIndex
          /\ event' = event
          /\ lastSentTime' = lastSentTime]_vars

\* an event was translated a second time, after another one whose text
\* another rule matched
C26_Witness ==
    /\ prev.any /\ prev.type.t = "object"
    /\ Returned /\ out.type.t = "object"
    /\ prev.type # out.type

\* C27: every message that translate makes of a sanitized event that passed
\* the schema passes validatePayload: one embed, its description not empty
\* and within 4096, its Details value within 1024, its total within 6000.
C27_TranslationPassesGatekeeper ==
    \A r \in Callers :
        (req[r].translated /\ TranslationOf(req[r]).threw = "")
        => validatePayload(Measured(TranslationOf(req[r]).payload)).ok

\* the step writes the response to request r
Answers(r) == req[r].pc # "answered" /\ req'[r].pc = "answered"

\* the send awaited for request r, as the step finds it
AwaitedSend(r) == call[req[r].slot]

\* C28: the handler answers success true only when the send it awaited for
\* that request has ended well, its network call resolved, which leaves
\* success false for a request that failed authentication or the schema,
\* whose translation threw or whose send threw; success false is answered
\* for no other request; and a response is written once.
C28_SuccessOnlyAfterOwnDispatch ==
    [][\A r \in Callers :
          /\ Answers(r) =>
                 LET q == req'[r]
                 IN /\ req[r].answer = NoAnswer /\ q.answer # NoAnswer
                    /\ q.answer.success =>
                           /\ req[r].pc = "awaiting"
                           /\ q.translated /\ q.sent
                           /\ AwaitedSend(r).pc = "done"
                           /\ AwaitedSend(r).posted
                           /\ AwaitedSend(r).result.ok
                           /\ Authenticated(q) /\ SchemaValid(q)
                           /\ \E made \in {TranslationOf(q)} :
                                  /\ made.threw = ""
                                  /\ AwaitedSend(r).msg
                                         = Measured(made.payload)
                    /\ ~q.answer.success =>
                           \/ req[r].pc = "none"
                           \/ ~AwaitedSend(r).result.ok
          /\ req'[r].answer # req[r].answer =>
                 Answers(r) \/ req'[r].pc = "closed"]_vars

\* of two requests answered so far, the one whose network call failed was
\* answered 500 and the one whose network call resolved success true
C28_Witness ==
    \E r, s \in Callers :
        /\ req[r].pc = "closed" /\ lastDone.ok
        /\ req[s].pc = "answered" /\ req[s].answer = Answer(200, TRUE)

\* the step suspends send call c for rate limiting
Suspends(c) == call[c].pc # "waiting" /\ call'[c].pc = "waiting"

\* C29: a send call suspends for rate limiting at most once, on its entry,
\* and the wait computed for it is more than 0 and at most rateLimitDelay,
\* whatever other calls are in flight; a send on a sender whose
\* lastSentTime is 0 does not wait.
C29_WaitOnceWithinDelay ==
    [][\A c \in Callers :
          /\ Suspends(c) =>
                 /\ call[c].pc = "idle"
                 /\ call'[c].delay > 0
                 /\ call'[c].delay <= RateLimitDelay
                 /\ lastSentTime # 0
          /\ call[c].pc = "waiting" =>
                 call[c].delay > 0 /\ call[c].delay <= RateLimitDelay]_vars

\* a call that found lastSentTime 0 went to the network at once, and the
\* call that entered as that one resolved waits the whole delay
C29_Witness ==
    \E c, d \in Callers :
        /\ call[d].pc = "done" /\ call[d].posted /\ call[d].result.ok
        /\ lastSentTime = now
        /\ call[c].pc = "waiting" /\ call[c].delay = RateLimitDelay

\* send call c is suspended: it waits for its timer or for the network
Suspended(c) == call[c].pc \in {"waiting", "posting"}
\* send call c has ended: it returned, or it threw its one error
Completed(c) == call[c].pc \in {"done", "returned"}

\* C30: every send call that is suspended completes in the end, given that
\* a due timer fires and a network call resolves or rejects, however many
\* other calls are in flight and whatever they end in.
C30_EverySendCompletes ==
    \A c \in Callers : Suspended(c) ~> Completed(c)

\* a call has ended well beside one that failed
C30_Witness ==
    \E c, d \in Callers :
        /\ call[c].pc = "done" /\ ~call[c].result.ok /\ call[c].posted
        /\ call[d].pc = "done" /\ call[d].result.ok
=============================================================================
